---- MODULE Spec2Model ----
(***************************************************************************)
(* window_art: the cooperative animation engine (animate.py), the Desktop  *)
(* driver (core.py) and the Window deferred-apply model (window.py).       *)
(*                                                                         *)
(* Numbers.  Coordinates and sizes are Python floats; here they are        *)
(* integers counting half pixels and an interpolated value is truncated    *)
(* to the half pixel.  Opacity is in hundredths (100 is 1.0).  The clock   *)
(* (time.perf_counter) counts frame intervals; a duration is a number of   *)
(* frame intervals.  An eased progress t is the fraction <<num, den>>.     *)
(***************************************************************************)
EXTENDS Integers, Sequences, FiniteSets, TLC

(* ------------------------------ bounds --------------------------------- *)

\* windows the script creates
NumWin == 2
\* generators the script creates (leaves and composites)
MaxTasks == 4
\* last clock value explored
MaxTime == 3
\* calls the script makes besides creating and closing windows, building
\* generators and requesting a stop
MaxOps == 2

(* --------------------------- input domains ----------------------------- *)

\* durations given to the blocking calls: negative, zero and positive
Durations == {-1, 0, 1, 2}
\* durations given to the non-blocking builders
TweenDurations == {1, 2}
\* destinations of the moves given to the thread-based parallel
BranchPosDst == {<<9, 4>>, <<3, 8>>}
\* destinations of move / resize (half pixels), fade (hundredths, one of
\* them above 1.0) and color_to
PosDst == {<<9, 4>>}
SizeDst == {<<12, 8>>}
OpacityDst == {20, 140}
ColorDst == {<<0, 0, 0, 255>>}
\* colours given to color_to where the interpolation itself is examined,
\* and the durations of these calls
ColorStops == {<<0, 0, 0, 255>>, <<255, 255, 255, 255>>, <<10, 200, 30, 128>>}
ColorDurations == {0, 2, 3}
\* destinations of move whose interpolated positions fall on half pixels:
\* (100, 0) and (4, 2) in pixels
GridPosDst == {<<200, 0>>, <<8, 4>>}
\* arguments of Desktop.window(x, y, w, h, color, opacity)
WinArgs == [x |-> 0, y |-> 0, w |-> 4, h |-> 4,
            color |-> <<255, 255, 255, 255>>, opacity |-> 100]
\* easing selectors given to the calls
Eases == {"linear", "ease_in_quad"}

\* names given to get_easing: registry names, spellings of them in other
\* case and with other separators, and names the registry does not hold
EaseNames ==
    { <<"l", "i", "n", "e", "a", "r">>,
      <<"L", "I", "N", "E", "A", "R">>,
      <<"e", "a", "s", "e", "_", "o", "u", "t">>,
      <<"E", "a", "s", "e", "-", "O", "u", "t">>,
      <<"e", "a", "s", "e", " ", "o", "u", "t">>,
      <<"e", "a", "s", "e", "o", "u", "t">>,
      <<"b", "o", "g", "u", "s">> }

\* names given to the animation calls: those of EaseNames that resolve to a
\* function of Ease, and unknown ones
CallNames ==
    { <<"l", "i", "n", "e", "a", "r">>,
      <<"E", "a", "s", "e", "-", "I", "n">>,
      <<"b", "o", "g", "u", "s">> }

VARIABLES
    desktop,   \* the Desktop singleton's fields
    win,       \* the Window objects, by id (Window._id), in creation order
    tasks,     \* the generator objects, in creation order
    pc,        \* where the main thread is: "idle", or inside _run_animation
    root,      \* the generator _run_animation drives (0: none)
    now,       \* time.perf_counter()
    ops,       \* calls made so far (bounds the script)
    ev         \* what the last call did, in order (observation only)

vars == <<desktop, win, tasks, pc, root, now, ops, ev>>

(* ------------------------------ helpers -------------------------------- *)

Min(a, b) == IF a < b THEN a ELSE b
Max(a, b) == IF a > b THEN a ELSE b

\* int(n / d) of Python: truncation toward zero (d > 0)
Trunc(n, d) == IF n >= 0 THEN n \div d ELSE -((-n) \div d)

Range(s) == {s[i] : i \in DOMAIN s}

\* int(self._x) etc. of _apply_changes: coordinates and sizes are floats,
\* kept here in half pixels; the host is given whole pixels
Px(v) == Trunc(v, 2)

(* ---------------------------- window.py -------------------------------- *)

\* Color.__post_init__: each channel clamped to 0..255
ClampColor(c) == [i \in 1..4 |-> Max(0, Min(255, c[i]))]

\* Window.__init__: the fields, and what the host shows after the
\* constructor's SDL_CreateWindow, _apply_opacity and _render (shown_*).
NewWindow(text) ==
    [x |-> WinArgs.x, y |-> WinArgs.y, w |-> WinArgs.w, h |-> WinArgs.h,
     color |-> ClampColor(WinArgs.color), opacity |-> WinArgs.opacity,
     closed |-> FALSE, text_renderer |-> text,
     text_dirty |-> FALSE, dirty |-> FALSE, position_dirty |-> FALSE,
     size_dirty |-> FALSE, opacity_dirty |-> FALSE,
     shown_pos |-> <<Px(WinArgs.x), Px(WinArgs.y)>>,
     shown_size |-> <<Px(WinArgs.w), Px(WinArgs.h)>>,
     shown_opacity |-> WinArgs.opacity,
     shown_color |-> ClampColor(WinArgs.color)]

\* Window.opacity setter's max(0.0, min(1.0, float(value)))
ClampOpacity(v) == Max(0, Min(100, v))

\* The property setters of Window: the new record of window r after
\* `r.prop = v`.  Each stores the value and sets one flag; none calls SDL.
SetX(r, v) == [r EXCEPT !.x = v, !.position_dirty = TRUE]
SetY(r, v) == [r EXCEPT !.y = v, !.position_dirty = TRUE]
SetW(r, v) == [r EXCEPT !.w = v, !.size_dirty = TRUE]
SetH(r, v) == [r EXCEPT !.h = v, !.size_dirty = TRUE]
\* (variant) the position setter moves the host window at once
SetPosition_Eager(r, v) ==
    [r EXCEPT !.x = v[1], !.y = v[2], !.shown_pos = <<Px(v[1]), Px(v[2])>>]

SetPosition(r, v) == [r EXCEPT !.x = v[1], !.y = v[2], !.position_dirty = TRUE]
SetSize(r, v) == [r EXCEPT !.w = v[1], !.h = v[2], !.size_dirty = TRUE]
SetColor(r, v) == [r EXCEPT !.color = ClampColor(v), !.dirty = TRUE]
\* (variant) the opacity is stored as given
SetOpacity_Unclamped(r, v) == [r EXCEPT !.opacity = v, !.opacity_dirty = TRUE]

SetOpacity(r, v) == [r EXCEPT !.opacity = ClampOpacity(v), !.opacity_dirty = TRUE]

\* the text_padding setter (lines 601-606): the padding is stored (it is not
\* followed here), and a window with a text renderer is flagged for text
\* and render
SetTextPadding(r, v) ==
    IF r.text_renderer THEN [r EXCEPT !.text_dirty = TRUE, !.dirty = TRUE] ELSE r

Props == {"x", "y", "w", "h", "position", "size", "color", "opacity"}

SetProp(r, prop, v) ==
    CASE prop = "x" -> SetX(r, v)
      [] prop = "y" -> SetY(r, v)
      [] prop = "w" -> SetW(r, v)
      [] prop = "h" -> SetH(r, v)
      [] prop = "position" -> SetPosition(r, v)
      [] prop = "size" -> SetSize(r, v)
      [] prop = "color" -> SetColor(r, v)
      [] prop = "opacity" -> SetOpacity(r, v)

\* The property getters of Window.
GetProp(r, prop) ==
    CASE prop = "x" -> r.x
      [] prop = "y" -> r.y
      [] prop = "w" -> r.w
      [] prop = "h" -> r.h
      [] prop = "position" -> <<r.x, r.y>>
      [] prop = "size" -> <<r.w, r.h>>
      [] prop = "color" -> r.color
      [] prop = "opacity" -> r.opacity

\* values a script writes to a property
PropValues(prop) ==
    CASE prop \in {"x", "y"} -> {9}
      [] prop \in {"w", "h"} -> {12}
      [] prop = "position" -> PosDst
      [] prop = "size" -> SizeDst
      [] prop = "color" -> ColorDst
      [] prop = "opacity" -> OpacityDst

\* Window._apply_changes, one flush after the other: the new record of the
\* window and the host calls made, in order.
\* (variant) the position flush leaves its flag set
ApplyPosition_KeepsFlag(r) ==
    IF r.position_dirty
    THEN [r EXCEPT !.shown_pos = <<Px(r.x), Px(r.y)>>]
    ELSE r

ApplyPosition(r) ==
    IF r.position_dirty
    THEN [r EXCEPT !.shown_pos = <<Px(r.x), Px(r.y)>>,
                   !.position_dirty = FALSE]
    ELSE r

\* (variant) the size flush leaves the text flag as it was
ApplySize_NoReflow(r) ==
    IF r.size_dirty
    THEN [r EXCEPT !.shown_size = <<Px(r.w), Px(r.h)>>, !.size_dirty = FALSE,
                   !.dirty = TRUE]
    ELSE r

ApplySize(r) ==
    IF r.size_dirty
    THEN [r EXCEPT !.shown_size = <<Px(r.w), Px(r.h)>>, !.size_dirty = FALSE,
                   !.dirty = TRUE,
                   !.text_dirty = (r.text_renderer \/ r.text_dirty)]
    ELSE r

\* (variant) the opacity flush clears the render flag as well
ApplyOpacity_ClearsRender(r) ==
    IF r.opacity_dirty
    THEN [r EXCEPT !.shown_opacity = r.opacity, !.opacity_dirty = FALSE,
                   !.dirty = FALSE]
    ELSE r

ApplyOpacity(r) ==
    IF r.opacity_dirty
    THEN [r EXCEPT !.shown_opacity = r.opacity, !.opacity_dirty = FALSE]
    ELSE r

\* (variant) the text flush leaves its flag set
ApplyText_LeavesFlag(r) ==
    IF r.text_dirty /\ r.text_renderer
    THEN [r EXCEPT !.dirty = TRUE]
    ELSE r

ApplyText(r) ==
    IF r.text_dirty /\ r.text_renderer
    THEN [r EXCEPT !.text_dirty = FALSE, !.dirty = TRUE]
    ELSE r

ApplyRender(r) ==
    IF r.dirty
    THEN [r EXCEPT !.shown_color = r.color, !.dirty = FALSE]
    ELSE r

ApplyEffects(r) ==
    LET r1 == ApplyPosition(r)
        r2 == ApplySize(r1)
        r3 == ApplyOpacity(r2)
        r4 == ApplyText(r3)
    IN  IF r.closed THEN << >> ELSE
        (IF r.position_dirty THEN <<"SDL_SetWindowPosition">> ELSE << >>)
     \o (IF r1.size_dirty THEN <<"SDL_SetWindowSize">> ELSE << >>)
     \o (IF r2.opacity_dirty THEN <<"SDL_SetWindowOpacity">> ELSE << >>)
     \o (IF r3.text_dirty /\ r3.text_renderer THEN <<"_update_text_texture">> ELSE << >>)
     \o (IF r4.dirty THEN <<"_render">> ELSE << >>)

\* the time-driven content of lines 832-840: frame says that the window
\* shows a gif or a video, dt > 0 and its update(dt) reports a new frame
ApplyFrame(r, frame) ==
    IF frame THEN [r EXCEPT !.dirty = TRUE] ELSE r

\* _apply_changes(dt) with time-driven content
ApplyChangesAt(r, frame) ==
    IF r.closed THEN r
    ELSE ApplyRender(ApplyText(ApplyFrame(
             ApplyOpacity(ApplySize(ApplyPosition(r))), frame)))

ApplyEffectsAt(r, frame) ==
    LET r1 == ApplyPosition(r)
        r2 == ApplySize(r1)
        r3 == ApplyOpacity(r2)
        r4 == ApplyFrame(r3, frame)
        r5 == ApplyText(r4)
    IN  IF r.closed THEN << >> ELSE
        (IF r.position_dirty THEN <<"SDL_SetWindowPosition">> ELSE << >>)
     \o (IF r1.size_dirty THEN <<"SDL_SetWindowSize">> ELSE << >>)
     \o (IF r2.opacity_dirty THEN <<"SDL_SetWindowOpacity">> ELSE << >>)
     \o (IF frame THEN <<"_update_frame_texture">> ELSE << >>)
     \o (IF r4.text_dirty /\ r4.text_renderer THEN <<"_update_text_texture">> ELSE << >>)
     \o (IF r5.dirty THEN <<"_render">> ELSE << >>)

\* (variant) _apply_changes does not look at _closed
ApplyChanges_IgnoresClosed(r) ==
    ApplyRender(ApplyText(ApplyOpacity(ApplySize(ApplyPosition(r)))))

ApplyChanges(r) ==
    IF r.closed THEN r
    ELSE ApplyRender(ApplyText(ApplyOpacity(ApplySize(ApplyPosition(r)))))

(* ------------------------- observation log ----------------------------- *)

\* One entry of ev.  op is "pump" (SDL_PollEvent loop), "apply"
\* (_apply_changes entered for window win), "sdl" (host call `what` on
\* window win), "next" (next() called on generator node), "yield" / "stop"
\* (generator node suspended / raised StopIteration), "set" (generator node
\* assigned property `what` of window win, which then held val).
Event(op, node, w, what, val) ==
    [op |-> op, node |-> node, win |-> w, what |-> what, val |-> val]

\* the machine state a call works on
Machine == [win |-> win, tasks |-> tasks, ev |-> << >>, late |-> {},
            raised |-> FALSE]

Log(m, e) == [m EXCEPT !.ev = Append(m.ev, e)]

\* `win.prop = v` executed by generator node (0: by the script itself)
Assign(m, node, w, prop, v) ==
    LET r == SetProp(m.win[w], prop, v)
    IN  [m EXCEPT !.win[w] = r,
                  !.ev = Append(m.ev, Event("set", node, w, prop,
                                            GetProp(r, prop)))]

(* ---------------------------- easing.py -------------------------------- *)
\* A name given as easing selector is a sequence of characters; a function
\* is the string of its identifier.  str.lower() on the letters of the
\* alphabet used here:
UpperCase == <<"A", "B", "C", "D", "E", "F", "G", "H", "I", "J", "K", "L", "M",
               "N", "O", "P", "Q", "R", "S", "T", "U", "V", "W", "X", "Y", "Z">>
LowerCase == <<"a", "b", "c", "d", "e", "f", "g", "h", "i", "j", "k", "l", "m",
               "n", "o", "p", "q", "r", "s", "t", "u", "v", "w", "x", "y", "z">>

Lower(c) ==
    IF \E i \in DOMAIN UpperCase : UpperCase[i] = c
    THEN LowerCase[CHOOSE i \in DOMAIN UpperCase : UpperCase[i] = c]
    ELSE c

\* .replace("-", "_").replace(" ", "_")
Underscore(c) == IF c \in {"-", " "} THEN "_" ELSE c

\* (variant) the name is not lowered
Normalize_KeepCase(name) == [i \in DOMAIN name |-> Underscore(name[i])]

\* name.lower().replace("-", "_").replace(" ", "_") (line 271)
Normalize(name) == [i \in DOMAIN name |-> Underscore(Lower(name[i]))]

\* EASING_FUNCTIONS, in the order of the dict: <<name, function>>; ease_in,
\* ease_out and ease_in_out are the quad functions (lines 224-226)
EASING_FUNCTIONS ==
    <<<<<<"l", "i", "n", "e", "a", "r">>,
        "linear">>,
      <<<<"e", "a", "s", "e", "_", "i", "n">>,
        "ease_in_quad">>,
      <<<<"e", "a", "s", "e", "_", "o", "u", "t">>,
        "ease_out_quad">>,
      <<<<"e", "a", "s", "e", "_", "i", "n", "_", "o", "u", "t">>,
        "ease_in_out_quad">>,
      <<<<"e", "a", "s", "e", "_", "i", "n", "_", "q", "u", "a", "d">>,
        "ease_in_quad">>,
      <<<<"e", "a", "s", "e", "_", "o", "u", "t", "_", "q", "u", "a", "d">>,
        "ease_out_quad">>,
      <<<<"e", "a", "s", "e", "_", "i", "n", "_", "o", "u", "t", "_", "q", "u", "a", "d">>,
        "ease_in_out_quad">>,
      <<<<"e", "a", "s", "e", "_", "i", "n", "_", "c", "u", "b", "i", "c">>,
        "ease_in_cubic">>,
      <<<<"e", "a", "s", "e", "_", "o", "u", "t", "_", "c", "u", "b", "i", "c">>,
        "ease_out_cubic">>,
      <<<<"e", "a", "s", "e", "_", "i", "n", "_", "o", "u", "t", "_", "c", "u", "b", "i", "c">>,
        "ease_in_out_cubic">>,
      <<<<"e", "a", "s", "e", "_", "i", "n", "_", "q", "u", "a", "r", "t">>,
        "ease_in_quart">>,
      <<<<"e", "a", "s", "e", "_", "o", "u", "t", "_", "q", "u", "a", "r", "t">>,
        "ease_out_quart">>,
      <<<<"e", "a", "s", "e", "_", "i", "n", "_", "o", "u", "t", "_", "q", "u", "a", "r", "t">>,
        "ease_in_out_quart">>,
      <<<<"e", "a", "s", "e", "_", "i", "n", "_", "q", "u", "i", "n", "t">>,
        "ease_in_quint">>,
      <<<<"e", "a", "s", "e", "_", "o", "u", "t", "_", "q", "u", "i", "n", "t">>,
        "ease_out_quint">>,
      <<<<"e", "a", "s", "e", "_", "i", "n", "_", "o", "u", "t", "_", "q", "u", "i", "n", "t">>,
        "ease_in_out_quint">>,
      <<<<"e", "a", "s", "e", "_", "i", "n", "_", "s", "i", "n", "e">>,
        "ease_in_sine">>,
      <<<<"e", "a", "s", "e", "_", "o", "u", "t", "_", "s", "i", "n", "e">>,
        "ease_out_sine">>,
      <<<<"e", "a", "s", "e", "_", "i", "n", "_", "o", "u", "t", "_", "s", "i", "n", "e">>,
        "ease_in_out_sine">>,
      <<<<"e", "a", "s", "e", "_", "i", "n", "_", "e", "x", "p", "o">>,
        "ease_in_expo">>,
      <<<<"e", "a", "s", "e", "_", "o", "u", "t", "_", "e", "x", "p", "o">>,
        "ease_out_expo">>,
      <<<<"e", "a", "s", "e", "_", "i", "n", "_", "o", "u", "t", "_", "e", "x", "p", "o">>,
        "ease_in_out_expo">>,
      <<<<"e", "a", "s", "e", "_", "i", "n", "_", "c", "i", "r", "c">>,
        "ease_in_circ">>,
      <<<<"e", "a", "s", "e", "_", "o", "u", "t", "_", "c", "i", "r", "c">>,
        "ease_out_circ">>,
      <<<<"e", "a", "s", "e", "_", "i", "n", "_", "o", "u", "t", "_", "c", "i", "r", "c">>,
        "ease_in_out_circ">>,
      <<<<"e", "a", "s", "e", "_", "i", "n", "_", "b", "a", "c", "k">>,
        "ease_in_back">>,
      <<<<"e", "a", "s", "e", "_", "o", "u", "t", "_", "b", "a", "c", "k">>,
        "ease_out_back">>,
      <<<<"e", "a", "s", "e", "_", "i", "n", "_", "o", "u", "t", "_", "b", "a", "c", "k">>,
        "ease_in_out_back">>,
      <<<<"e", "a", "s", "e", "_", "i", "n", "_", "e", "l", "a", "s", "t", "i", "c">>,
        "ease_in_elastic">>,
      <<<<"e", "a", "s", "e", "_", "o", "u", "t", "_", "e", "l", "a", "s", "t", "i", "c">>,
        "ease_out_elastic">>,
      <<<<"e", "a", "s", "e", "_", "i", "n", "_", "o", "u", "t", "_", "e", "l", "a", "s", "t", "i", "c">>,
        "ease_in_out_elastic">>,
      <<<<"e", "a", "s", "e", "_", "i", "n", "_", "b", "o", "u", "n", "c", "e">>,
        "ease_in_bounce">>,
      <<<<"e", "a", "s", "e", "_", "o", "u", "t", "_", "b", "o", "u", "n", "c", "e">>,
        "ease_out_bounce">>,
      <<<<"e", "a", "s", "e", "_", "i", "n", "_", "o", "u", "t", "_", "b", "o", "u", "n", "c", "e">>,
        "ease_in_out_bounce">>>>

\* the `ease` argument of a call: a name, or a function passed as it is
Named(chars) == [callable |-> FALSE, fn |-> "", name |-> chars]
Function(fn) == [callable |-> TRUE, fn |-> fn, name |-> << >>]

\* ', '.join(EASING_FUNCTIONS.keys())
RegistryNames == [i \in DOMAIN EASING_FUNCTIONS |-> EASING_FUNCTIONS[i][1]]

\* `name_normalized not in EASING_FUNCTIONS`
Unknown(key) == \A i \in DOMAIN EASING_FUNCTIONS : EASING_FUNCTIONS[i][1] # key

\* EASING_FUNCTIONS[name_normalized]
Lookup(key) ==
    EASING_FUNCTIONS[CHOOSE i \in DOMAIN EASING_FUNCTIONS :
                         EASING_FUNCTIONS[i][1] = key][2]

\* (variant) an unknown name resolves to linear
GetEasing_Fallback(sel) ==
    IF sel.callable \/ Unknown(Normalize(sel.name))
    THEN [ok |-> TRUE, fn |-> IF sel.callable THEN sel.fn ELSE "linear",
          given |-> << >>, names |-> << >>]
    ELSE [ok |-> TRUE, fn |-> Lookup(Normalize(sel.name)),
          given |-> << >>, names |-> << >>]

\* get_easing(name): the function returned (ok), or the ValueError raised,
\* whose message holds the name as given and the names of the registry
GetEasing(sel) ==
    IF sel.callable
    THEN [ok |-> TRUE, fn |-> sel.fn, given |-> << >>, names |-> << >>]
    ELSE IF Unknown(Normalize(sel.name))
    THEN [ok |-> FALSE, fn |-> "", given |-> sel.name, names |-> RegistryNames]
    ELSE [ok |-> TRUE, fn |-> Lookup(Normalize(sel.name)),
          given |-> << >>, names |-> << >>]

\* the ValueError of get_easing leaving a call
Raise(r) == <<Event("raise", 0, 0, "ValueError", r)>>

\* linear(t) = t; ease_in_quad(t) = t * t; t = num / den
\* ("faulty" is a function of the caller: t below 1/2, an exception from
\* 1/2 on)
\* ease_in_back(t) = c3 t^3 - c1 t^2 and ease_out_back(t) =
\* 1 + c3 (t - 1)^3 + c1 (t - 1)^2 with c1 = 1.70158, c3 = c1 + 1 (lines
\* 140-151), in hundred-thousandths; ease_in_elastic and ease_out_elastic
\* (lines 163-180) at t = 0 and at t = 1/2, where the sine is 1/2 and the
\* power 2^-5: -1/64 and 1 + 1/64
Ease(name, num, den) ==
    CASE name = "linear" -> <<num, den>>
      [] name = "ease_in_quad" -> <<num * num, den * den>>
      [] name = "faulty" -> <<num, den>>
      [] name = "ease_in_back" ->
            <<270158 * num * num * num - 170158 * num * num * den,
              100000 * den * den * den>>
      [] name = "ease_out_back" ->
            <<100000 * den * den * den
                  + 270158 * (num - den) * (num - den) * (num - den)
                  + 170158 * (num - den) * (num - den) * den,
              100000 * den * den * den>>
      [] name = "ease_in_elastic" /\ num = 0 -> <<0, 1>>
      [] name = "ease_in_elastic" /\ 2 * num = den -> <<-1, 64>>
      [] name = "ease_out_elastic" /\ num = 0 -> <<0, 1>>
      [] name = "ease_out_elastic" /\ 2 * num = den -> <<65, 64>>

\* the call ease(num / den) raises
Raises(name, num, den) == name = "faulty" /\ 2 * num >= den

\* The value of a function at t = 0 and t = 1 in double precision.  A double
\* is [i, c, e, any]: i / 1024 + c * C1 + e * 2^-59, C1 the double written
\* 1.70158; `any` marks a finite double whose value is not followed.
Sub == 64

Fp(i, c, e) == [i |-> i, c |-> c, e |-> e, any |-> FALSE]

Finite == [i |-> 0, c |-> 0, e |-> 0, any |-> TRUE]

Whole(n) == Fp(1024 * n, 0, 0)

Zero == Whole(0)

One == Whole(1)

\* c1 = 1.70158 (lines 142, 149, 156): its 53-bit significand is 1 modulo 4,
\* so C1 is C1Low * 2^-52 above a multiple of 2^-50
C1Low == 1

C1 == Fp(0, 1, 0)

\* c2 = c1 * 1.525 (line 157)
C2 == Finite

\* n1 = 7.5625 (line 197)
N1 == Fp(7744, 0, 0)

\* the magnitude of x in 1024000ths, and the spacing of the doubles around
\* x in units of 2^-59: 2^-51 in [2, 4), 2^-52 in [1, 2), 2^-53 in [1/2, 1);
\* the smaller values that arise here are doubles as they stand
Magnitude(x) ==
    LET a == x.i * 1000 + x.c * 1742418
        s == IF a # 0 THEN a ELSE x.e
    IN  [abs |-> IF a < 0 THEN 0 - a ELSE a,
         out |-> (s >= 0 /\ x.e >= 0) \/ (s < 0 /\ x.e <= 0)]

Spacing(x) ==
    LET m == Magnitude(x)
        AtLeast(b) == m.abs > b \/ (m.abs = b /\ m.out)
    IN  IF AtLeast(2048000) THEN 4 * Sub
        ELSE IF AtLeast(1024000) THEN 2 * Sub
        ELSE IF AtLeast(512000) THEN Sub
        ELSE 1

\* round to nearest double, ties to even: the rounding of every operation
Fl(x) ==
    IF x.any THEN x
    ELSE LET g == Spacing(x)
             low == x.c * C1Low * 2 * Sub + x.e
             q == low \div g
             r == low % g
             to == IF 2 * r < g THEN q * g
                   ELSE IF 2 * r > g THEN (q + 1) * g
                   ELSE IF q % 2 = 0 THEN q * g ELSE (q + 1) * g
         IN  [x EXCEPT !.e = x.e + (to - low)]

FNeg(x) == [x EXCEPT !.i = 0 - x.i, !.c = 0 - x.c, !.e = 0 - x.e]

FAdd(x, y) ==
    IF x.any \/ y.any THEN Finite
    ELSE Fl(Fp(x.i + y.i, x.c + y.c, x.e + y.e))

FSub(x, y) == FAdd(x, FNeg(y))

IsInt(x) == ~x.any /\ x.c = 0 /\ x.e = 0 /\ x.i % 1024 = 0

\* x * y: followed when a factor is an integer (a factor 0 gives 0)
FMul(x, y) ==
    IF x = Zero \/ y = Zero THEN Zero
    ELSE IF x.any \/ y.any THEN Finite
    ELSE IF IsInt(x)
    THEN Fl(Fp((x.i \div 1024) * y.i, (x.i \div 1024) * y.c, (x.i \div 1024) * y.e))
    ELSE IF IsInt(y)
    THEN Fl(Fp((y.i \div 1024) * x.i, (y.i \div 1024) * x.c, (y.i \div 1024) * x.e))
    ELSE Finite

\* x / 2
Half(x) ==
    IF x.any \/ x.c # 0 \/ x.i % 2 # 0 \/ x.e % 2 # 0 THEN Finite
    ELSE Fp(x.i \div 2, 0, x.e \div 2)

\* n ** k for integers
RECURSIVE IntPow(_, _)
IntPow(n, k) == IF k = 0 THEN 1 ELSE n * IntPow(n, k - 1)

\* 2 ** n for an integer n in -10 .. 1
Pow2(n) == Fp(IntPow(2, n + 10), 0, 0)

\* math.sqrt(x)
Sqrt(x) == IF x = Zero THEN Zero ELSE IF x = One THEN One ELSE Finite

\* math.cos(h * math.pi / 2) and math.sin(h * math.pi / 2): math.pi is the
\* double below pi, so the cosine of math.pi / 2 is 6.123e-17 (35 * 2^-59
\* to the unit) and the sine of math.pi 1.2246e-16
Cos(h) ==
    CASE h = 0 -> One
      [] h = 1 -> Fp(0, 0, 35)
      [] h = 2 -> FNeg(One)

Sin(h) ==
    CASE h = 0 -> Zero
      [] h = 1 -> One
      [] h = 2 -> Fp(0, 0, 71)

\* c3 = c1 + 1
C3 == FAdd(C1, One)

\* (variant) no special case at t = 1
ease_out_expo_Computed(t) == FSub(One, Pow2(0 - 10 * t))

ease_out_expo(t) == IF t = 1 THEN One ELSE FSub(One, Pow2(0 - 10 * t))

\* n1 * t * t after `t -= 2.625 / d1` at t = 1 (lines 208-209): the three
\* roundings leave 1/64 - 17 * 2^-59
LastBounce(t) == IF t = 1 THEN Fp(16, 0, 0 - 17) ELSE Finite

\* d1 = 2.75: t < 1 / d1 is 11 * t < 4
ease_out_bounce(t) ==
    IF 11 * t < 4 THEN FMul(FMul(N1, Whole(t)), Whole(t))
    ELSE IF 11 * t < 8 THEN FAdd(Finite, Fp(768, 0, 0))
    ELSE IF 11 * t < 10 THEN FAdd(Finite, Fp(960, 0, 0))
    ELSE FAdd(LastBounce(t), Fp(1008, 0, 0))

\* f(t) for the function f of the registry, each arm the body of the
\* function of that name
Call(fn, t) ==
    CASE fn = "linear" -> Whole(t)
      [] fn = "ease_in_quad" -> Whole(t * t)
      [] fn = "ease_out_quad" -> Whole(1 - (1 - t) * (1 - t))
      [] fn = "ease_in_out_quad" ->
            IF 2 * t < 1 THEN Whole(2 * t * t)
            ELSE FSub(One, Half(Whole(IntPow(2 - 2 * t, 2))))
      [] fn = "ease_in_cubic" -> Whole(t * t * t)
      [] fn = "ease_out_cubic" -> Whole(1 - IntPow(1 - t, 3))
      [] fn = "ease_in_out_cubic" ->
            IF 2 * t < 1 THEN Whole(4 * t * t * t)
            ELSE FSub(One, Half(Whole(IntPow(2 - 2 * t, 3))))
      [] fn = "ease_in_quart" -> Whole(t * t * t * t)
      [] fn = "ease_out_quart" -> Whole(1 - IntPow(1 - t, 4))
      [] fn = "ease_in_out_quart" ->
            IF 2 * t < 1 THEN Whole(8 * t * t * t * t)
            ELSE FSub(One, Half(Whole(IntPow(2 - 2 * t, 4))))
      [] fn = "ease_in_quint" -> Whole(t * t * t * t * t)
      [] fn = "ease_out_quint" -> Whole(1 - IntPow(1 - t, 5))
      [] fn = "ease_in_out_quint" ->
            IF 2 * t < 1 THEN Whole(16 * t * t * t * t * t)
            ELSE FSub(One, Half(Whole(IntPow(2 - 2 * t, 5))))
      \* 1 - math.cos((t * math.pi) / 2)
      [] fn = "ease_in_sine" -> FSub(One, Cos(t))
      \* math.sin(t * math.pi / 2)
      [] fn = "ease_out_sine" -> Sin(t)
      \* -(math.cos(math.pi * t) - 1) / 2
      [] fn = "ease_in_out_sine" -> Half(FNeg(FSub(Cos(2 * t), One)))
      [] fn = "ease_in_expo" -> IF t = 0 THEN Zero ELSE Pow2(10 * t - 10)
      [] fn = "ease_out_expo" -> ease_out_expo(t)
      [] fn = "ease_in_out_expo" ->
            IF t = 0 THEN Zero ELSE IF t = 1 THEN One ELSE Finite
      \* 1 - math.sqrt(1 - t * t)
      [] fn = "ease_in_circ" -> FSub(One, Sqrt(Whole(1 - t * t)))
      \* math.sqrt(1 - (t - 1) ** 2)
      [] fn = "ease_out_circ" -> Sqrt(Whole(1 - IntPow(t - 1, 2)))
      [] fn = "ease_in_out_circ" ->
            IF 2 * t < 1
            THEN Half(FSub(One, Sqrt(Whole(1 - IntPow(2 * t, 2)))))
            ELSE Half(FAdd(Sqrt(Whole(1 - IntPow(2 - 2 * t, 2))), One))
      \* c3 * t * t * t - c1 * t * t
      [] fn = "ease_in_back" ->
            FSub(FMul(FMul(FMul(C3, Whole(t)), Whole(t)), Whole(t)),
                 FMul(FMul(C1, Whole(t)), Whole(t)))
      \* 1 + c3 * (t - 1) ** 3 + c1 * (t - 1) ** 2
      [] fn = "ease_out_back" ->
            FAdd(FAdd(One, FMul(C3, Whole(IntPow(t - 1, 3)))),
                 FMul(C1, Whole(IntPow(t - 1, 2))))
      [] fn = "ease_in_out_back" ->
            IF 2 * t < 1
            THEN Half(FMul(Whole(IntPow(2 * t, 2)),
                           FSub(FMul(FMul(FAdd(C2, One), Whole(2)), Whole(t)), C2)))
            ELSE Half(FAdd(FMul(Whole(IntPow(2 * t - 2, 2)),
                                FAdd(FMul(FAdd(C2, One), Whole(t * 2 - 2)), C2)),
                           Whole(2)))
      [] fn = "ease_in_elastic" ->
            IF t = 0 THEN Zero ELSE IF t = 1 THEN One ELSE Finite
      [] fn = "ease_out_elastic" ->
            IF t = 0 THEN Zero ELSE IF t = 1 THEN One ELSE Finite
      [] fn = "ease_in_out_elastic" ->
            IF t = 0 THEN Zero ELSE IF t = 1 THEN One ELSE Finite
      [] fn = "ease_in_bounce" -> FSub(One, ease_out_bounce(1 - t))
      [] fn = "ease_out_bounce" -> ease_out_bounce(t)
      [] fn = "ease_in_out_bounce" ->
            IF 2 * t < 1
            THEN Half(FSub(One, ease_out_bounce(1 - 2 * t)))
            ELSE Half(FAdd(One, ease_out_bounce(2 * t - 1)))

(* ---------------------------- animate.py ------------------------------- *)

\* _lerp(a, b, t) = a + (b - a) * t with t = t[1] / t[2], to the half pixel
\* (hundredth of opacity)
Lerp(a, b, t) == a + Trunc((b - a) * t[1], t[2])

\* Color.lerp: int(a + (b - a) * t) per channel, then Color(...) clamps
\* (variant) the channels are rounded to the nearest integer
ColorLerp_Rounded(c1, c2, t) ==
    ClampColor([i \in 1..4 |->
        Trunc(2 * (c1[i] * t[2] + (c2[i] - c1[i]) * t[1]) + t[2], 2 * t[2])])

ColorLerp(c1, c2, t) ==
    ClampColor([i \in 1..4 |-> Trunc(c1[i] * t[2] + (c2[i] - c1[i]) * t[1], t[2])])

TweenKinds == {"move", "resize", "fade", "color"}

\* the properties a tween generator reads at its start and assigns, in order
TweenProps(kind) ==
    CASE kind = "move" -> <<"x", "y">>
      [] kind = "resize" -> <<"w", "h">>
      [] kind = "fade" -> <<"opacity">>
      [] kind = "color" -> <<"color">>

TweenDst(kind) ==
    CASE kind = "move" -> PosDst
      [] kind = "resize" -> SizeDst
      [] kind = "fade" -> {<<o>> : o \in OpacityDst}
      [] kind = "color" -> {<<c>> : c \in ColorDst}

\* the frame of Desktop.update() in a thread that is inside its flush loop
\* `for win in self._windows` (core.py 219): i is the index of the list
\* iterator, seen the windows the loop body was entered with, base the
\* number of windows that existed at the pump, clear the place in FlushFlags
\* of the flag whose host call is made and whose clearing is still to come
\* (0: none)
NoFlush == [i |-> 0, seen |-> << >>, base |-> 0, clear |-> 0]

\* a generator object that has not run yet (tpc: where the thread that
\* drives it is, for a branch of the thread-based parallel; else "none";
\* calls: how many times next() was called on it)
NewTask(kind, w, dst, dur, ease, kids) ==
    [kind |-> kind, win |-> w, dst |-> dst, dur |-> dur, ease |-> ease,
     kids |-> kids, st |-> "new", start |-> << >>, t0 |-> 0,
     active |-> << >>, idx |-> 0, held |-> FALSE, local |-> FALSE,
     tpc |-> "none", calls |-> 0, flush |-> NoFlush]

\* time.perf_counter() as read inside a generator
Clock == now

\* (variant) every generator of a call is handed the same time
Read_Shared(m, n) == Clock

\* what time.perf_counter() returns to generator n during this call: each
\* generator reads the clock itself, and the clock may have moved on (by
\* one unit here) for the generators in m.late
Read(m, n) == IF n \in m.late THEN Clock + 1 ELSE Clock

\* the value a tween assigns on a step with elapsed < duration (lines 64-66,
\* 88-90, 110-111, 131-132)
TweenValue(kind, a, b, t) ==
    IF kind = "color" THEN ColorLerp(a, b, t) ELSE Lerp(a, b, t)

\* (variant) the last step interpolates like every other step
TweenFinal_Interpolated(k, elapsed) ==
    [i \in DOMAIN k.dst |->
        TweenValue(k.kind, k.start[i], k.dst[i], Ease(k.ease, elapsed, k.dur))]

\* the values a tween assigns on the step with elapsed >= duration (lines
\* 59-62, 83-86, 106-108, 127-129): the destination itself
TweenFinal(k, elapsed) == k.dst

\* `win.p1 = v1; win.p2 = v2` by generator node (0: by the script)
AssignAll(m, node, w, props, vals) ==
    LET m1 == Assign(m, node, w, props[1], vals[1])
    IN  IF Len(props) = 1 THEN m1
        ELSE Assign(m1, node, w, props[2], vals[2])

\* the assignments of one step of a tween, in source order
\* (variant) the generator stores the values without the setters: no flag
\* is touched
TweenAssign_Direct(m, n, vals) ==
    LET w == m.tasks[n].win
        a == AssignAll(m, n, w, TweenProps(m.tasks[n].kind), vals)
    IN  [a EXCEPT !.win[w].position_dirty = m.win[w].position_dirty,
                  !.win[w].size_dirty = m.win[w].size_dirty,
                  !.win[w].opacity_dirty = m.win[w].opacity_dirty,
                  !.win[w].dirty = m.win[w].dirty]

TweenAssign(m, n, vals) ==
    AssignAll(m, n, m.tasks[n].win, TweenProps(m.tasks[n].kind), vals)

\* one pass of the `while True:` loop of _move_gen, _resize_gen, _fade_gen
\* and _color_gen: [m: the machine after it, done: returned (TRUE) or
\* yielded (FALSE)]
\* (variant) the second channel is interpolated with the progress before
\* easing
TweenStep_OwnProgress(m, n) ==
    LET k == m.tasks[n]
        elapsed == Read(m, n) - k.t0
    IN  IF elapsed >= k.dur
        THEN [m |-> TweenAssign(m, n, TweenFinal(k, elapsed)), done |-> TRUE]
        ELSE LET t == Ease(k.ease, elapsed, k.dur)
                 vals == [i \in DOMAIN k.dst |->
                             TweenValue(k.kind, k.start[i], k.dst[i],
                                        IF i = 1 THEN t ELSE <<elapsed, k.dur>>)]
             IN  [m |-> TweenAssign(m, n, vals), done |-> FALSE]

\* (variant) the loop ends only when elapsed is past the duration; the
\* division elapsed / duration by a duration of 0 raises ZeroDivisionError
TweenStep_EndsAfter(m, n) ==
    LET k == m.tasks[n]
        elapsed == Read(m, n) - k.t0
    IN  IF elapsed > k.dur
        THEN [m |-> TweenAssign(m, n, TweenFinal(k, elapsed)), done |-> TRUE]
        ELSE IF k.dur = 0 \/ Raises(k.ease, elapsed, k.dur)
        THEN [m |-> [m EXCEPT !.raised = TRUE], done |-> TRUE]
        ELSE LET t == Ease(k.ease, elapsed, k.dur)
                 vals == [i \in DOMAIN k.dst |->
                             TweenValue(k.kind, k.start[i], k.dst[i], t)]
             IN  [m |-> TweenAssign(m, n, vals), done |-> FALSE]

TweenStep(m, n) ==
    LET k == m.tasks[n]
        elapsed == Read(m, n) - k.t0
    IN  IF elapsed >= k.dur
        THEN [m |-> TweenAssign(m, n, TweenFinal(k, elapsed)), done |-> TRUE]
        ELSE IF Raises(k.ease, elapsed, k.dur)
        THEN [m |-> [m EXCEPT !.raised = TRUE], done |-> TRUE]
        ELSE LET t == Ease(k.ease, elapsed, k.dur)
                 vals == [i \in DOMAIN k.dst |->
                             TweenValue(k.kind, k.start[i], k.dst[i], t)]
             IN  [m |-> TweenAssign(m, n, vals), done |-> FALSE]

\* (variant) the start time is not read when the generator starts
StartTime_Zero(m, n) == 0

\* `start_time = time.perf_counter()` (lines 55, 79, 102, 123)
StartTime(m, n) == Read(m, n)

\* the start of a tween generator, run by its first next(): the start
\* values and the start time are read here, then the loop is entered
TweenStart(m, n) ==
    LET k == m.tasks[n]
        props == TweenProps(k.kind)
    IN  [m EXCEPT !.tasks[n].start =
                      [i \in DOMAIN props |-> GetProp(m.win[k.win], props[i])],
                  !.tasks[n].t0 = StartTime(m, n)]

\* (variant) the start values are read again on every advance
TweenNext_Rereads(m, n) ==
    TweenStep(IF m.tasks[n].st = "new" THEN TweenStart(m, n)
              ELSE [m EXCEPT !.tasks[n].start = TweenStart(m, n).tasks[n].start],
              n)

TweenNext(m, n) ==
    TweenStep(IF m.tasks[n].st = "new" THEN TweenStart(m, n) ELSE m, n)

\* _wait_gen: yields while perf_counter() - start_time < duration
WaitNext(m, n) ==
    LET m1 == IF m.tasks[n].st = "new"
              THEN [m EXCEPT !.tasks[n].t0 = Read(m, n)] ELSE m
    IN  [m |-> m1, done |-> ~(Read(m, n) - m1.tasks[n].t0 < m1.tasks[n].dur)]

\* (variant) a child that ended stays in the active list
ParKeep_All(still, child, childDone) == Append(still, child)

\* _parallel_gen, lines 143-147: a child that yielded stays active, a child
\* that raised StopIteration is dropped
ParKeep(still, child, childDone) ==
    IF childDone THEN still ELSE Append(still, child)

\* (variant) the generator returns in the pass that empties the list
ParReturns_WhenEmptied(activeBefore, activeAfter) == activeAfter = << >>

\* (variant) the generator yields after every pass and never returns
ParReturns_Never(activeBefore, activeAfter) == FALSE

\* _parallel_gen, line 140 and 149: the generator returns when it is
\* resumed (or started) with nothing active, and yields after every pass
ParReturns(activeBefore, activeAfter) == activeBefore = << >>

\* (variant) the next generator is started whether or not the head ended
SeqContinues_Always(childDone) == TRUE

\* (variant) the sequence yields when the head ends
SeqContinues_Never(childDone) == FALSE

\* _sequence_gen, lines 154-155: when `yield from anim` ends, the for loop
\* goes on to the next generator at once, inside the same next()
SeqContinues(childDone) == childDone

\* (variant) the for loop ends before its last generator
SeqEnds_BeforeLast(i, kids) == i >= Len(kids)

\* _sequence_gen, line 154: `for anim in animations` is exhausted
SeqEnds(i, kids) == i > Len(kids)

RECURSIVE GenNext(_, _), ParLoop(_, _, _, _), SeqLoop(_, _, _)

\* (variant) an exception of a child is caught like its StopIteration
ParLoop_Isolating(m, active, i, still) ==
    IF i > Len(active) THEN [m |-> m, still |-> still]
    ELSE LET r == GenNext(m, active[i])
         IN  ParLoop([r.m EXCEPT !.raised = FALSE], active, i + 1,
                     ParKeep(still, active[i], r.done))

\* the `for anim in active` pass of _parallel_gen; only StopIteration is
\* caught (line 146), any other exception of a child leaves the pass
ParLoop(m, active, i, still) ==
    IF i > Len(active) \/ m.raised THEN [m |-> m, still |-> still]
    ELSE LET r == GenNext(m, active[i])
         IN  ParLoop(r.m, active, i + 1, ParKeep(still, active[i], r.done))

\* (variant) the generator makes a pass and yields before it first looks
\* whether anything is active
ParallelNext_PassFirst(m, n) ==
    LET k == m.tasks[n]
        active == IF k.st = "new" THEN k.kids ELSE k.active
        r == ParLoop(m, active, 1, << >>)
    IN  [m |-> [r.m EXCEPT !.tasks[n].active = r.still],
         done |-> k.st # "new" /\ active = << >>]

\* one next() of _parallel_gen
ParallelNext(m, n) ==
    LET k == m.tasks[n]
        active == IF k.st = "new" THEN k.kids ELSE k.active
        r == IF active = << >> THEN [m |-> m, still |-> << >>]
             ELSE ParLoop(m, active, 1, << >>)
    IN  [m |-> [r.m EXCEPT !.tasks[n].active = r.still],
         done |-> r.m.raised \/ ParReturns(active, r.still)]

\* _sequence_gen from child i on: `yield from` passes next() to the child
SeqLoop(m, n, i) ==
    LET kids == m.tasks[n].kids
    IN  IF SeqEnds(i, kids)
        THEN [m |-> [m EXCEPT !.tasks[n].idx = i], done |-> TRUE]
        ELSE LET r == GenNext(m, kids[i])
             IN  IF r.m.raised
                 THEN [m |-> [r.m EXCEPT !.tasks[n].idx = i], done |-> TRUE]
                 ELSE IF SeqContinues(r.done) THEN SeqLoop(r.m, n, i + 1)
                 ELSE [m |-> [r.m EXCEPT !.tasks[n].idx = i], done |-> FALSE]

\* one next() of _sequence_gen
SequenceNext(m, n) ==
    SeqLoop(m, n, IF m.tasks[n].st = "new" THEN 1 ELSE m.tasks[n].idx)

\* next(generator n): the generator runs to its next yield or to its end
\* (StopIteration); next() on a generator that has ended raises
\* StopIteration and runs nothing
GenNext(m, n) ==
    LET k == m.tasks[n]
        m0 == Log([m EXCEPT !.tasks[n].calls = @ + 1],
                  Event("next", n, 0, "", << >>))
        r == CASE k.st = "done" -> [m |-> m0, done |-> TRUE]
               [] k.st # "done" /\ k.kind \in TweenKinds -> TweenNext(m0, n)
               [] k.st # "done" /\ k.kind = "wait" -> WaitNext(m0, n)
               [] k.st # "done" /\ k.kind = "parallel" -> ParallelNext(m0, n)
               [] k.st # "done" /\ k.kind = "sequence" -> SequenceNext(m0, n)
        st == IF r.done THEN "done" ELSE "running"
    IN  [m |-> Log([r.m EXCEPT !.tasks[n].st = st],
                   IF r.m.raised THEN Event("raise", n, 0, "Exception", << >>)
                   ELSE Event(IF r.done THEN "stop" ELSE "yield", n, 0, "", << >>)),
         done |-> r.done]

(* ------------------------------ core.py -------------------------------- *)

\* the SIGINT handlers a program can have in force before init: the one
\* Python installs at startup, SIG_IGN, or a function of the host program
PriorHandlers == {"default_int_handler", "SIG_IGN", "host"}

\* Desktop.__init__; sigint is the SIGINT handler in force in the process
\* (kept with the singleton: "desktop" is Desktop._sigint_handler), original
\* is _original_sigint_handler ("none": None)
NewDesktop ==
    [initialized |-> FALSE, windows |-> << >>, running |-> FALSE,
     stop_requested |-> FALSE, original |-> "none",
     sigint |-> "default_int_handler"]

\* (variant) every call of init installs the handler and saves the one
\* that was in force
DesktopInit_Always(d) ==
    [d EXCEPT !.initialized = TRUE, !.stop_requested = FALSE,
              !.original = d.sigint, !.sigint = "desktop"]

\* Desktop.init: only the first call does anything; signal.signal returns
\* the handler that was in force
DesktopInit(d) ==
    IF d.initialized THEN d
    ELSE [d EXCEPT !.initialized = TRUE, !.stop_requested = FALSE,
                   !.original = d.sigint, !.sigint = "desktop"]

\* Desktop.quit: the saved handler is put back, every window is closed and
\* the singleton is dropped (the next Desktop.get() makes a new one)
DesktopQuit(d) ==
    IF ~d.initialized THEN d
    ELSE [NewDesktop EXCEPT
              !.sigint = IF d.original # "none" THEN d.original ELSE d.sigint]

\* Desktop._sigint_handler and Desktop.stop: the same two assignments
RequestStop(d) == [d EXCEPT !.stop_requested = TRUE, !.running = FALSE]

\* (variant) only the windows that a generator animates are flushed
FlushTargets_TaskOnly(d, w) ==
    SelectSeq(d.windows,
              LAMBDA i : ~w[i].closed /\ \E n \in DOMAIN tasks : tasks[n].win = i)

\* the windows Desktop.update flushes, in order (lines 219-220)
FlushTargets(d, w) == SelectSeq(d.windows, LAMBDA i : ~w[i].closed)

RECURSIVE FlushEvents(_, _, _)
\* the log of the flush loop over targets ts from position i on
FlushEvents(w, ts, i) ==
    IF i > Len(ts) THEN << >>
    ELSE <<Event("apply", 0, ts[i], "", << >>)>>
         \o [j \in DOMAIN ApplyEffects(w[ts[i]]) |->
                Event("sdl", 0, ts[i], ApplyEffects(w[ts[i]])[j], << >>)]
         \o FlushEvents(w, ts, i + 1)

\* (variant) update() flushes before it pumps
Update_FlushFirst(d0, w, quit, sig) ==
    LET d1 == DesktopInit(d0)
        d3 == IF sig = "none" THEN [d1 EXCEPT !.running = TRUE]
              ELSE RequestStop(d1)
        ts == FlushTargets(d3, w)
    IN  IF d1.stop_requested
        THEN [desktop |-> d1, win |-> w, ev |-> << >>, ret |-> FALSE]
        ELSE [desktop |-> d3,
              win |-> [i \in DOMAIN w |->
                         IF i \in Range(ts) THEN ApplyChanges(w[i]) ELSE w[i]],
              ev |-> FlushEvents(w, ts, 1)
                     \o <<Event("pump", 0, 0, "", << >>)>>,
              ret |-> ~quit /\ ~d3.stop_requested]

\* where a SIGINT may be delivered inside update(): not at all, between the
\* entry check and `_running = True`, or after `_running = True`
SigintPoints == {"none", "early", "late"}

\* (variant) update() takes the stop request back when it reports it
Update_OneShot(d0, w, quit, sig) ==
    LET d1 == DesktopInit(d0)
        d2 == [d1 EXCEPT !.running = TRUE]
        d3 == CASE sig = "none" -> d2
                [] sig = "early" -> [RequestStop(d1) EXCEPT !.running = TRUE]
                [] sig = "late" -> RequestStop(d2)
        ts == FlushTargets(d3, w)
        pump == <<Event("pump", 0, 0, "", << >>)>>
    IN  IF d1.stop_requested
        THEN [desktop |-> [d1 EXCEPT !.stop_requested = FALSE], win |-> w,
              ev |-> << >>, ret |-> FALSE]
        ELSE IF quit
        THEN [desktop |-> d3, win |-> w, ev |-> pump, ret |-> FALSE]
        ELSE [desktop |-> d3,
              win |-> [i \in DOMAIN w |->
                         IF i \in Range(ts) THEN ApplyChanges(w[i]) ELSE w[i]],
              ev |-> pump \o FlushEvents(w, ts, 1),
              ret |-> ~d3.stop_requested]

\* Desktop.update(): [desktop, win, ev, ret]; quit: the pump sees SDL_QUIT,
\* Escape or Ctrl-C; sig: a SIGINT is delivered during the call
Update(d0, w, quit, sig) ==
    LET d1 == DesktopInit(d0)
        d2 == [d1 EXCEPT !.running = TRUE]
        d3 == CASE sig = "none" -> d2
                [] sig = "early" -> [RequestStop(d1) EXCEPT !.running = TRUE]
                [] sig = "late" -> RequestStop(d2)
        ts == FlushTargets(d3, w)
        pump == <<Event("pump", 0, 0, "", << >>)>>
    IN  IF d1.stop_requested
        THEN [desktop |-> d1, win |-> w, ev |-> << >>, ret |-> FALSE]
        ELSE IF quit
        THEN [desktop |-> d3, win |-> w, ev |-> pump, ret |-> FALSE]
        ELSE [desktop |-> d3,
              win |-> [i \in DOMAIN w |->
                         IF i \in Range(ts) THEN ApplyChanges(w[i]) ELSE w[i]],
              ev |-> pump \o FlushEvents(w, ts, 1),
              ret |-> ~d3.stop_requested]

(* ------------------------------ actions -------------------------------- *)

Init ==
    /\ desktop = NewDesktop
    /\ win = << >>
    /\ tasks = << >>
    /\ pc = "idle"
    /\ root = 0
    /\ now = 0
    /\ ops = 0
    /\ ev = << >>

\* generators no composite holds and no driver has run
Free == {n \in DOMAIN tasks : ~tasks[n].held}

\* Desktop.window(...): init, construct, register
Window(text) ==
    /\ pc = "idle"
    /\ Len(win) < NumWin
    /\ desktop' = [DesktopInit(desktop) EXCEPT
                       !.windows = Append(@, Len(win) + 1)]
    /\ win' = Append(win, NewWindow(text))
    /\ ev' = << >>
    /\ UNCHANGED <<tasks, pc, root, now, ops>>

\* win.prop = v by the script
Write(w, prop, v) ==
    /\ pc = "idle"
    /\ ops < MaxOps
    /\ LET m == Assign(Machine, 0, w, prop, v)
       IN  win' = m.win /\ ev' = m.ev
    /\ ops' = ops + 1
    /\ UNCHANGED <<desktop, tasks, pc, root, now>>

\* the properties whose setters set the five flags between them
FlagProps == <<"position", "size", "opacity", "color", "text_padding">>

RECURSIVE WriteEach(_, _, _)
\* `win.p = v` for the properties props[i], props[i + 1], ... in turn
WriteEach(r, props, i) ==
    IF i > Len(props) THEN r
    ELSE WriteEach(IF props[i] = "text_padding" THEN SetTextPadding(r, 0)
                   ELSE SetProp(r, props[i],
                                CHOOSE v \in PropValues(props[i]) : TRUE),
                   props, i + 1)

\* the script writes several properties of one window, one after the other
WriteProps(w, props) ==
    /\ pc = "idle"
    /\ ops < MaxOps
    /\ ops' = ops + 1
    /\ win' = [win EXCEPT ![w] = WriteEach(win[w], props, 1)]
    /\ ev' = [i \in DOMAIN props |-> Event("set", 0, w, props[i], << >>)]
    /\ UNCHANGED <<desktop, tasks, pc, root, now>>

\* win._apply_changes() called on one window
\* win._apply_changes(dt) with the frame change as input
ApplyAt(w, frame) ==
    /\ pc = "idle"
    /\ win' = [win EXCEPT ![w] = ApplyChangesAt(win[w], frame)]
    /\ ev' = <<Event("apply", 0, w, "", << >>)>>
             \o [j \in DOMAIN ApplyEffectsAt(win[w], frame) |->
                    Event("sdl", 0, w, ApplyEffectsAt(win[w], frame)[j], << >>)]
    /\ UNCHANGED <<desktop, tasks, pc, root, now, ops>>

Apply(w) ==
    /\ pc = "idle"
    /\ win' = [win EXCEPT ![w] = ApplyChanges(win[w])]
    /\ ev' = FlushEvents(win, <<w>>, 1)
    /\ UNCHANGED <<desktop, tasks, pc, root, now, ops>>

\* Window.close()
\* Window.close() on a closed window: `if self._closed: return`
CloseAgain(w) ==
    /\ pc = "idle"
    /\ win[w].closed
    /\ ev' = <<Event("return", 0, w, "close", << >>)>>
    /\ UNCHANGED <<desktop, win, tasks, pc, root, now, ops>>

\* Desktop.clear(): every registered window is closed
ClearCall ==
    /\ pc = "idle"
    /\ win' = [w \in DOMAIN win |->
                 IF w \in Range(desktop.windows)
                 THEN [win[w] EXCEPT !.closed = TRUE, !.text_renderer = FALSE,
                                     !.text_dirty = FALSE]
                 ELSE win[w]]
    /\ desktop' = [desktop EXCEPT
                       !.windows = SelectSeq(@, LAMBDA i : i \notin Range(desktop.windows))]
    /\ ev' = << >>
    /\ UNCHANGED <<tasks, pc, root, now, ops>>

\* (variant) close does not call _remove_window
Close_KeepsRegistered(w) ==
    /\ pc = "idle"
    /\ ~win[w].closed
    /\ win' = [win EXCEPT ![w].closed = TRUE, ![w].text_renderer = FALSE,
                          ![w].text_dirty = FALSE]
    /\ ev' = << >>
    /\ UNCHANGED <<desktop, tasks, pc, root, now, ops>>

Close(w) ==
    /\ pc = "idle"
    /\ ~win[w].closed
    /\ win' = [win EXCEPT ![w].closed = TRUE, ![w].text_renderer = FALSE,
                          ![w].text_dirty = FALSE]
    /\ desktop' = [desktop EXCEPT
                       !.windows = SelectSeq(@, LAMBDA i : i # w)]
    /\ ev' = << >>
    /\ UNCHANGED <<tasks, pc, root, now, ops>>

\* Window.close() called by another thread (a branch of parallel(...))
\* while this thread is inside _run_animation, between two of its steps
CloseConcurrent(w) ==
    /\ pc # "idle"
    /\ ~win[w].closed
    /\ win' = [win EXCEPT ![w].closed = TRUE, ![w].text_renderer = FALSE,
                          ![w].text_dirty = FALSE]
    /\ desktop' = [desktop EXCEPT
                       !.windows = SelectSeq(@, LAMBDA i : i # w)]
    /\ ev' = << >>
    /\ UNCHANGED <<tasks, pc, root, now, ops>>

\* a generator created inside a blocking call: driven at once, and
\* unreachable when the call returns
LocalTask(kind, w, dst, dur, ease, kids) ==
    [NewTask(kind, w, dst, dur, ease, kids) EXCEPT !.held = TRUE, !.local = TRUE]

\* the generators that are still referenced when a blocking call starts:
\* those of earlier blocking calls are gone
Alive == IF \A n \in DOMAIN tasks : tasks[n].local THEN << >> ELSE tasks

\* _run_animation(animation) up to its loop: Desktop.get().init()
StartRun(d, n) ==
    /\ desktop' = DesktopInit(d)
    /\ pc' = "update"
    /\ root' = n

\* (variant) a zero duration goes through the scheduler
Instant_NegativeOnly(dur) == dur < 0

\* `if duration <= 0:` of the blocking calls (lines 174, 189, 203, 236, 250)
Instant(dur) == dur <= 0

\* move / resize / fade / color_to (win, destination, duration, ease) with
\* the ease argument as given (sel): the duration is tested first, then
\* get_easing(ease) is evaluated, then the generator is made and run
AnimateCall(kind, w, dst, dur, sel) ==
    /\ pc = "idle"
    /\ ops < MaxOps
    /\ ops' = ops + 1
    /\ IF Instant(dur)
       THEN /\ LET m == AssignAll(Machine, 0, w, TweenProps(kind), dst)
               IN  win' = m.win /\ ev' = m.ev
            /\ UNCHANGED <<desktop, tasks, pc, root, now>>
       ELSE IF ~GetEasing(sel).ok
       THEN /\ ev' = Raise(GetEasing(sel))
            /\ UNCHANGED <<desktop, win, tasks, pc, root, now>>
       ELSE /\ Len(Alive) < MaxTasks
            /\ tasks' = Append(Alive, LocalTask(kind, w, dst, dur,
                                                GetEasing(sel).fn, << >>))
            /\ StartRun(desktop, Len(Alive) + 1)
            /\ ev' = << >>
            /\ UNCHANGED <<win, now>>

\* the same with a function as ease argument
AnimateTo(kind, w, dst, dur, ease) ==
    AnimateCall(kind, w, dst, dur, Function(ease))

Move(w, dst, dur, ease) == AnimateTo("move", w, dst, dur, ease)
Resize(w, dst, dur, ease) == AnimateTo("resize", w, dst, dur, ease)
Fade(w, dst, dur, ease) == AnimateTo("fade", w, dst, dur, ease)
ColorTo(w, dst, dur, ease) == AnimateTo("color", w, dst, dur, ease)

RECURSIVE AssignEach(_, _, _, _)
\* `for win in windows: win.x = x; win.y = y` of move_all
AssignEach(m, ws, i, dst) ==
    IF i > Len(ws) THEN m
    ELSE AssignEach(AssignAll(m, 0, ws[i], TweenProps("move"), dst),
                    ws, i + 1, dst)

\* move_all(windows, x, y, duration, ease) with the ease argument as given
MoveAllCall(ws, dst, dur, sel) ==
    /\ pc = "idle"
    /\ ops < MaxOps
    /\ ops' = ops + 1
    /\ IF Instant(dur)
       THEN /\ LET m == AssignEach(Machine, ws, 1, dst)
               IN  win' = m.win /\ ev' = m.ev
            /\ UNCHANGED <<desktop, tasks, pc, root, now>>
       ELSE IF ~GetEasing(sel).ok
       THEN /\ ev' = Raise(GetEasing(sel))
            /\ UNCHANGED <<desktop, win, tasks, pc, root, now>>
       ELSE /\ Len(Alive) + Len(ws) < MaxTasks
            /\ LET base == Len(Alive)
                   gens == [i \in DOMAIN ws |->
                              LocalTask("move", ws[i], dst, dur,
                                        GetEasing(sel).fn, << >>)]
                   par == LocalTask("parallel", 0, << >>, 0, "",
                                    [i \in DOMAIN ws |-> base + i])
               IN  /\ tasks' = Alive \o gens \o <<par>>
                   /\ StartRun(desktop, base + Len(ws) + 1)
            /\ ev' = << >>
            /\ UNCHANGED <<win, now>>

\* the same with a function as ease argument
MoveAll(ws, dst, dur, ease) == MoveAllCall(ws, dst, dur, Function(ease))

\* fade_in(win, duration, ease), lines 209-216: `win.opacity = 0.0`, then
\* fade(win, 1.0, duration, ease)
FadeInCall(w, dur, sel) ==
    /\ pc = "idle"
    /\ ops < MaxOps
    /\ ops' = ops + 1
    /\ \E m0 \in {Assign(Machine, 0, w, "opacity", 0)} :
          IF Instant(dur)
          THEN /\ \E m \in {Assign(m0, 0, w, "opacity", 100)} :
                      win' = m.win /\ ev' = m.ev
               /\ UNCHANGED <<desktop, tasks, pc, root, now>>
          ELSE IF ~GetEasing(sel).ok
          THEN /\ win' = m0.win
               /\ ev' = m0.ev \o Raise(GetEasing(sel))
               /\ UNCHANGED <<desktop, tasks, pc, root, now>>
          ELSE /\ Len(Alive) < MaxTasks
               /\ tasks' = Append(Alive, LocalTask("fade", w, <<100>>, dur,
                                                   GetEasing(sel).fn, << >>))
               /\ StartRun(desktop, Len(Alive) + 1)
               /\ win' = m0.win
               /\ ev' = m0.ev
               /\ UNCHANGED now

\* fade_out(win, duration, ease), lines 219-225: fade(win, 0.0, duration,
\* ease)
FadeOutCall(w, dur, sel) == AnimateCall("fade", w, <<0>>, dur, sel)

\* wait(duration)
Wait(dur) ==
    /\ pc = "idle"
    /\ ops < MaxOps
    /\ ops' = ops + 1
    /\ Len(Alive) < MaxTasks
    /\ tasks' = Append(Alive, LocalTask("wait", 0, << >>, dur, "", << >>))
    /\ StartRun(desktop, Len(Alive) + 1)
    /\ ev' = << >>
    /\ UNCHANGED <<win, now>>

\* move_async / resize_async / fade_async / color_async: the generator is
\* created and nothing of it runs
BuildCall(kind, w, dst, dur, sel) ==
    /\ pc = "idle"
    /\ Len(tasks) < MaxTasks
    /\ UNCHANGED <<desktop, win, pc, root, now, ops>>
    /\ LET ease == GetEasing(sel)
       IN  IF ease.ok
           THEN /\ tasks' = Append(tasks, NewTask(kind, w, dst, dur,
                                                  ease.fn, << >>))
                /\ ev' = << >>
           ELSE /\ tasks' = tasks
                /\ ev' = Raise(ease)

\* the same with a function as ease argument
BuildTween(kind, w, dst, dur, ease) ==
    BuildCall(kind, w, dst, dur, Function(ease))

\* get_easing(name) called by the script
\* get_easing(name)(t) at a boundary t
Boundaries == {0, 1}

EaseCall(sel, t) ==
    /\ pc = "idle"
    /\ UNCHANGED <<desktop, win, tasks, pc, root, now, ops>>
    /\ \E ease \in {GetEasing(sel)} :
           /\ ease.ok
           /\ ev' = <<Event("return", 0, 0, "ease",
                            [fn |-> ease.fn, t |-> t, value |-> Call(ease.fn, t)])>>

GetEasingCall(sel) ==
    /\ pc = "idle"
    /\ UNCHANGED <<desktop, win, tasks, pc, root, now, ops>>
    /\ LET ease == GetEasing(sel)
       IN  ev' = IF ease.ok
                 THEN <<Event("return", 0, 0, "get_easing", ease)>>
                 ELSE Raise(ease)

MoveAsync(w, dst, dur, ease) == BuildTween("move", w, dst, dur, ease)
ResizeAsync(w, dst, dur, ease) == BuildTween("resize", w, dst, dur, ease)
FadeAsync(w, dst, dur, ease) == BuildTween("fade", w, dst, dur, ease)
ColorAsync(w, dst, dur, ease) == BuildTween("color", w, dst, dur, ease)

\* parallel_async(*animations) / sequence_async(*animations)
BuildComposite(kind, kids) ==
    /\ pc = "idle"
    /\ Len(tasks) < MaxTasks
    /\ tasks' = Append([n \in DOMAIN tasks |->
                           IF n \in Range(kids)
                           THEN [tasks[n] EXCEPT !.held = TRUE] ELSE tasks[n]],
                       NewTask(kind, 0, << >>, 0, "", kids))
    /\ ev' = << >>
    /\ UNCHANGED <<desktop, win, pc, root, now, ops>>

ParallelAsync(kids) == BuildComposite("parallel", kids)
SequenceAsync(kids) == BuildComposite("sequence", kids)

\* run_animation(animation)
RunAnimation(n) ==
    /\ pc = "idle"
    /\ ops < MaxOps
    /\ ops' = ops + 1
    /\ tasks' = [tasks EXCEPT ![n].held = TRUE]
    /\ StartRun(desktop, n)
    /\ ev' = << >>
    /\ UNCHANGED <<win, now>>

\* Desktop.stop()
Stop ==
    /\ ~desktop.stop_requested \/ desktop.running
    /\ desktop' = RequestStop(desktop)
    /\ ev' = << >>
    /\ UNCHANGED <<win, tasks, pc, root, now, ops>>

\* SIGINT delivered between two calls while Desktop._sigint_handler is the
\* handler in force
Sigint ==
    /\ desktop.sigint = "desktop"
    /\ ~desktop.stop_requested \/ desktop.running
    /\ desktop' = RequestStop(desktop)
    /\ ev' = << >>
    /\ UNCHANGED <<win, tasks, pc, root, now, ops>>

\* SIGINT delivered while another handler is in force: that handler runs,
\* and the default one raises KeyboardInterrupt, which leaves any loop
SigintOutside ==
    /\ desktop.sigint # "desktop"
    /\ ev' = <<Event("signal", 0, 0, desktop.sigint, << >>)>>
    /\ IF desktop.sigint = "default_int_handler"
       THEN pc' = "idle" /\ root' = 0
       ELSE UNCHANGED <<pc, root>>
    /\ UNCHANGED <<desktop, win, tasks, now, ops>>

\* signal.signal(SIGINT, h) by the host program before init
HostHandler(h) ==
    /\ pc = "idle"
    /\ ~desktop.initialized
    /\ desktop.sigint # h
    /\ desktop' = [desktop EXCEPT !.sigint = h]
    /\ ev' = << >>
    /\ UNCHANGED <<win, tasks, pc, root, now, ops>>

\* init() called by the script
InitCall ==
    /\ pc = "idle"
    /\ ops < MaxOps
    /\ ops' = ops + 1
    /\ desktop' = DesktopInit(desktop)
    /\ ev' = << >>
    /\ UNCHANGED <<win, tasks, pc, root, now>>

\* quit() called by the script
QuitCall ==
    /\ pc = "idle"
    /\ desktop' = DesktopQuit(desktop)
    /\ win' = IF ~desktop.initialized THEN win
              ELSE [w \in DOMAIN win |->
                      [win[w] EXCEPT !.closed = TRUE, !.text_renderer = FALSE,
                                     !.text_dirty = FALSE]]
    /\ ev' = << >>
    /\ UNCHANGED <<tasks, pc, root, now, ops>>

\* update() called by the script
UpdateCall(quit, sig) ==
    /\ pc = "idle"
    /\ ops < MaxOps
    /\ ops' = ops + 1
    /\ LET u == Update(desktop, win, quit, sig)
       IN  desktop' = u.desktop /\ win' = u.win /\ ev' = u.ev
    /\ UNCHANGED <<tasks, pc, root, now>>

\* (variant) the result of update() is ignored
DriverUpdate_IgnoresResult(quit, sig) ==
    /\ pc = "update"
    /\ LET u == Update(desktop, win, quit, sig)
       IN  desktop' = u.desktop /\ win' = u.win /\ ev' = u.ev
    /\ pc' = "next"
    /\ UNCHANGED <<tasks, root, now, ops>>

\* _run_animation, line 26: `if not desktop.update(): break`
DriverUpdate(quit, sig) ==
    /\ pc = "update"
    /\ LET u == Update(desktop, win, quit, sig)
       IN  /\ desktop' = u.desktop /\ win' = u.win /\ ev' = u.ev
           /\ IF u.ret THEN pc' = "next" /\ root' = root
                       ELSE pc' = "idle" /\ root' = 0
    /\ UNCHANGED <<tasks, now, ops>>

\* time.sleep(frame_time - elapsed) when the tick was early (lines 34-36):
\* the tick lasts one frame interval, or longer when it overran
TickLengths == {1, 2}

\* _run_animation, lines 29-36: next(animation); StopIteration ends the
\* loop, otherwise the tick is slept out
\* (late: the generators that read the clock after it moved on within
\* the call)
\* (variant) the loop flushes every window once more when the generator
\* has ended
DriverNextAt_FlushesEnd(d, late) ==
    /\ pc = "next"
    /\ LET r == GenNext([Machine EXCEPT !.late = late], root)
       IN  /\ win' = IF r.done
                     THEN [i \in DOMAIN r.m.win |-> ApplyChanges(r.m.win[i])]
                     ELSE r.m.win
           /\ tasks' = r.m.tasks
           /\ ev' = r.m.ev
           /\ IF r.done
              THEN /\ pc' = "idle" /\ root' = 0
                   /\ now' = IF late = {} THEN now ELSE now + 1
                   /\ now' <= MaxTime
              ELSE pc' = "update" /\ root' = root /\ now' = now + d
                   /\ now + d <= MaxTime
    /\ UNCHANGED <<desktop, ops>>

DriverNextAt(d, late) ==
    /\ pc = "next"
    /\ LET r == GenNext([Machine EXCEPT !.late = late], root)
       IN  /\ win' = r.m.win /\ tasks' = r.m.tasks
           /\ ev' = IF r.m.raised
                    THEN Append(r.m.ev, Event("raise", 0, 0, "Exception", << >>))
                    ELSE r.m.ev
           /\ IF r.done
              THEN /\ pc' = "idle" /\ root' = 0
                   /\ now' = IF late = {} THEN now ELSE now + 1
                   /\ now' <= MaxTime
              ELSE pc' = "update" /\ root' = root /\ now' = now + d
                   /\ now + d <= MaxTime
    /\ UNCHANGED <<desktop, ops>>

\* the same when the clock does not move within the call
DriverNext(d) == DriverNextAt(d, {})

\* the sets of generators that can be late in a call on the root: the
\* root itself, or the children of a root Parallel from some place of the
\* list on (the children read in list order)
LateSets ==
    IF root = 0 THEN {{}}
    ELSE IF tasks[root].kind # "parallel" THEN {{}, {root}}
    ELSE {{tasks[root].kids[j] : j \in i .. Len(tasks[root].kids)} :
             i \in 1 .. Len(tasks[root].kids) + 1}

(* the thread-based parallel of animate.py: each branch is `lambda: move(...)` or
   `lambda: fade(...)` with a positive duration, run by a thread of its own
   through _run_animation.  A thread is at "update" (about to call
   desktop.update()), "next" (about to call next(animation)), "sleep" (in
   time.sleep) or "exit" (its function returned).  update() and next() of
   one thread are taken as one step each. *)

\* the functions a script passes to parallel
Branches ==
    [kind : {"move"}, win : DOMAIN win, dst : BranchPosDst,
     dur : TweenDurations]
    \cup [kind : {"fade"}, win : DOMAIN win,
          dst : {<<o>> : o \in {v \in OpacityDst : v <= 100}},
          dur : TweenDurations]

\* the generators that threads drive
Threads == {n \in DOMAIN tasks : tasks[n].tpc # "none"}

\* parallel(f1, f2), lines 297-307: init, then one started thread per
\* function; the main thread goes on to join them
ParallelThreads(bs) ==
    /\ pc = "idle"
    /\ ops < MaxOps
    /\ ops' = ops + 1
    /\ Len(Alive) + Len(bs) <= MaxTasks
    /\ desktop' = DesktopInit(desktop)
    /\ tasks' = Alive \o
          [i \in DOMAIN bs |->
              [LocalTask(bs[i].kind, bs[i].win, bs[i].dst, bs[i].dur,
                         "linear", << >>) EXCEPT !.tpc = "update"]]
    /\ pc' = "join"
    /\ ev' = << >>
    /\ UNCHANGED <<win, root, now>>

\* Desktop.run(): init(), _running = True, then the loop (lines 227-229)
RunCall ==
    /\ pc = "idle"
    /\ ops < MaxOps
    /\ ops' = ops + 1
    /\ desktop' = [DesktopInit(desktop) EXCEPT !.running = TRUE]
    /\ pc' = "run"
    /\ ev' = << >>
    /\ UNCHANGED <<win, tasks, root, now>>

\* run() is left: `finally: self._running = False`
RunReturn(d) == [d EXCEPT !.running = FALSE]

\* `while self._running:` (line 232)
RunCheck ==
    /\ pc = "run"
    /\ IF desktop.running
       THEN /\ pc' = "tick" /\ ev' = << >>
            /\ UNCHANGED desktop
       ELSE /\ pc' = "idle"
            /\ desktop' = RunReturn(desktop)
            /\ ev' = <<Event("return", 0, 0, "run", << >>)>>
    /\ UNCHANGED <<win, tasks, root, now, ops>>

\* (variant) no finally clause: an exception leaves _running as it is
RunUpdate_NoFinally(quit, sig, fault) ==
    /\ pc = "tick"
    /\ LET u == Update(desktop, win, quit, sig)
           entered == ~DesktopInit(desktop).stop_requested
       IN  IF fault /\ entered
           THEN /\ desktop' = u.desktop
                /\ win' = win
                /\ ev' = <<Event("pump", 0, 0, "", << >>),
                           Event("raise", 0, 0, "Exception", << >>)>>
                /\ pc' = "idle"
           ELSE /\ desktop' = IF u.ret THEN u.desktop ELSE RunReturn(u.desktop)
                /\ win' = u.win
                /\ ev' = u.ev \o <<Event("return", 0, 0, "update", u.ret)>>
                          \o IF u.ret THEN << >>
                             ELSE <<Event("return", 0, 0, "run", << >>)>>
                /\ pc' = IF u.ret THEN "pause" ELSE "idle"
    /\ UNCHANGED <<tasks, root, now, ops>>

\* `if not self.update(): break` (lines 235-236); fault: the tick raises
\* after the pump (a flush fails), and the exception leaves run() through
\* its finally clause
RunUpdate(quit, sig, fault) ==
    /\ pc = "tick"
    /\ LET u == Update(desktop, win, quit, sig)
           entered == ~DesktopInit(desktop).stop_requested
       IN  IF fault /\ entered
           THEN /\ desktop' = RunReturn(u.desktop)
                /\ win' = win
                /\ ev' = <<Event("pump", 0, 0, "", << >>),
                           Event("raise", 0, 0, "Exception", << >>)>>
                /\ pc' = "idle"
           ELSE /\ desktop' = IF u.ret THEN u.desktop ELSE RunReturn(u.desktop)
                /\ win' = u.win
                /\ ev' = u.ev \o <<Event("return", 0, 0, "update", u.ret)>>
                          \o IF u.ret THEN << >>
                             ELSE <<Event("return", 0, 0, "run", << >>)>>
                /\ pc' = IF u.ret THEN "pause" ELSE "idle"
    /\ UNCHANGED <<tasks, root, now, ops>>

\* the rest of the frame is slept out (lines 238-240)
RunSleep(d) ==
    /\ pc = "pause"
    /\ now + d <= MaxTime
    /\ now' = now + d
    /\ pc' = "run"
    /\ ev' = << >>
    /\ UNCHANGED <<desktop, win, tasks, root, ops>>

\* a thread's `if not desktop.update(): break`
ThreadUpdate(n) ==
    /\ pc = "join" /\ tasks[n].tpc = "update"
    /\ LET u == Update(desktop, win, FALSE, "none")
       IN  /\ desktop' = u.desktop /\ win' = u.win /\ ev' = u.ev
           /\ tasks' = [tasks EXCEPT
                          ![n].tpc = IF u.ret THEN "next" ELSE "exit"]
    /\ UNCHANGED <<pc, root, now, ops>>

\* a thread's desktop.update() up to its flush loop: init, the stop check,
\* `_running = True`, the pump (lines 197-217); "flush" is inside the loop
ThreadUpdateBegin(n) ==
    /\ pc = "join" /\ tasks[n].tpc = "update"
    /\ LET d1 == DesktopInit(desktop)
       IN  IF d1.stop_requested
           THEN /\ desktop' = d1
                /\ ev' = << >>
                /\ tasks' = [tasks EXCEPT ![n].tpc = "exit"]
           ELSE /\ desktop' = [d1 EXCEPT !.running = TRUE]
                /\ ev' = <<Event("pump", n, 0, "", << >>)>>
                /\ tasks' = [tasks EXCEPT
                       ![n].tpc = "flush",
                       ![n].flush = [NoFlush EXCEPT !.base = Len(win)]]
    /\ UNCHANGED <<win, pc, root, now, ops>>

\* one step of `for win in self._windows: if not win.closed:
\* win._apply_changes(...)` (lines 219-221): the list iterator yields
\* _windows[i] while i is below the length the list has now, else the loop
\* ends and update returns `not self._stop_requested`
ThreadFlushStep(n) ==
    /\ pc = "join" /\ tasks[n].tpc = "flush"
    /\ LET f == tasks[n].flush
           ws == desktop.windows
       IN  IF f.i < Len(ws)
           THEN LET w == ws[f.i + 1]
                IN  /\ win' = IF win[w].closed THEN win
                              ELSE [win EXCEPT ![w] = ApplyChanges(win[w])]
                    /\ ev' = IF win[w].closed THEN << >>
                             ELSE FlushEvents(win, <<w>>, 1)
                    /\ tasks' = [tasks EXCEPT
                           ![n].flush = [f EXCEPT !.i = f.i + 1,
                                                  !.seen = Append(f.seen, w)]]
           ELSE /\ win' = win
                /\ ev' = <<Event("return", n, 0, "update", ~desktop.stop_requested)>>
                /\ tasks' = [tasks EXCEPT
                       ![n].tpc = IF desktop.stop_requested THEN "exit" ELSE "next"]
    /\ UNCHANGED <<desktop, pc, root, now, ops>>

\* the flags _apply_changes tests, flushes and clears one after the other
\* (window.py 815-828)
FlushFlags == <<"position_dirty", "size_dirty", "opacity_dirty">>

\* a thread's flush loop with _apply_changes taken one statement at a time:
\* a step runs up to the next host call `SDL_SetWindow...(..., int(self._x),
\* ...)` and makes it, the following step does the assignments after that
\* call (`self._position_dirty = False`; for the size also `_dirty = True`
\* and `_text_dirty`) and goes on; the text and render part is one step
ThreadApplyStep(n) ==
    /\ pc = "join" /\ tasks[n].tpc = "flush"
    /\ LET f == tasks[n].flush
           ws == desktop.windows
           Sync(r, j) ==
               CASE j = 1 -> [r EXCEPT !.shown_pos = <<Px(r.x), Px(r.y)>>]
                 [] j = 2 -> [r EXCEPT !.shown_size = <<Px(r.w), Px(r.h)>>]
                 [] j = 3 -> [r EXCEPT !.shown_opacity = r.opacity]
           Clear(r, j) ==
               CASE j = 1 -> [r EXCEPT !.position_dirty = FALSE]
                 [] j = 2 -> [r EXCEPT !.size_dirty = FALSE, !.dirty = TRUE,
                                       !.text_dirty = (r.text_renderer \/ r.text_dirty)]
                 [] j = 3 -> [r EXCEPT !.opacity_dirty = FALSE]
           Dirty(r, k) == {j \in k .. Len(FlushFlags) : r[FlushFlags[j]]}
           Host(j) == CASE j = 1 -> "SDL_SetWindowPosition"
                        [] j = 2 -> "SDL_SetWindowSize"
                        [] j = 3 -> "SDL_SetWindowOpacity"
           \* window w, record r, from flag k on
           Continue(w, r, k, log) ==
               IF Dirty(r, k) # {}
               THEN LET j == CHOOSE j \in Dirty(r, k) : \A l \in Dirty(r, k) : j <= l
                    IN  /\ win' = [win EXCEPT ![w] = Sync(r, j)]
                        /\ ev' = log \o <<Event("sdl", n, w, Host(j), << >>)>>
                        /\ tasks' = [tasks EXCEPT ![n].flush.clear = j]
               ELSE /\ win' = [win EXCEPT ![w] = ApplyRender(ApplyText(r))]
                    /\ ev' = log
                    /\ tasks' = [tasks EXCEPT
                           ![n].flush = [f EXCEPT !.i = f.i + 1, !.clear = 0,
                                                  !.seen = Append(f.seen, w)]]
       IN  IF f.clear # 0
           THEN Continue(ws[f.i + 1], Clear(win[ws[f.i + 1]], f.clear), f.clear + 1,
                         <<Event("clear", n, ws[f.i + 1], FlushFlags[f.clear], << >>)>>)
           ELSE IF f.i < Len(ws)
           THEN IF win[ws[f.i + 1]].closed
                THEN /\ win' = win
                     /\ ev' = << >>
                     /\ tasks' = [tasks EXCEPT
                            ![n].flush = [f EXCEPT !.i = f.i + 1,
                                                   !.seen = Append(f.seen, ws[f.i + 1])]]
                ELSE Continue(ws[f.i + 1], win[ws[f.i + 1]], 1,
                              <<Event("apply", n, ws[f.i + 1], "", << >>)>>)
           ELSE /\ win' = win
                /\ ev' = <<Event("return", n, 0, "update", ~desktop.stop_requested)>>
                /\ tasks' = [tasks EXCEPT
                       ![n].tpc = IF desktop.stop_requested THEN "exit" ELSE "next"]
    /\ UNCHANGED <<desktop, pc, root, now, ops>>

\* Desktop.window(...) called by another thread while parallel(...) runs
WindowConcurrent(text) ==
    /\ pc = "join"
    /\ Len(win) < NumWin
    /\ desktop' = [DesktopInit(desktop) EXCEPT
                       !.windows = Append(@, Len(win) + 1)]
    /\ win' = Append(win, NewWindow(text))
    /\ ev' = << >>
    /\ UNCHANGED <<tasks, pc, root, now, ops>>

\* a thread's next(animation), then its sleep or its return
ThreadNext(n) ==
    /\ pc = "join" /\ tasks[n].tpc = "next"
    /\ LET r == GenNext(Machine, n)
       IN  /\ win' = r.m.win /\ ev' = r.m.ev
           /\ tasks' = [r.m.tasks EXCEPT
                          ![n].tpc = IF r.done THEN "exit" ELSE "sleep"]
    /\ UNCHANGED <<desktop, pc, root, now, ops>>

\* a frame interval passes: the sleeping threads wake up (a thread that is
\* not scheduled stays where it is while time goes on)
ThreadTick ==
    /\ pc = "join"
    /\ now < MaxTime
    /\ \E n \in Threads : tasks[n].tpc # "exit"
    /\ now' = now + 1
    /\ tasks' = [n \in DOMAIN tasks |->
                   IF tasks[n].tpc = "sleep"
                   THEN [tasks[n] EXCEPT !.tpc = "update"] ELSE tasks[n]]
    /\ ev' = << >>
    /\ UNCHANGED <<desktop, win, pc, root, ops>>

\* (variant) parallel returns when one thread has ended
AllJoined_Any == \E n \in Threads : tasks[n].tpc = "exit"

\* `for t in threads: t.join()` has gone through (lines 309-310)
AllJoined == \A n \in Threads : tasks[n].tpc = "exit"

\* parallel(...) returns
Join ==
    /\ pc = "join"
    /\ AllJoined
    /\ pc' = "idle"
    /\ ev' = << >>
    /\ UNCHANGED <<desktop, win, tasks, root, now, ops>>

\* argument lists of parallel_async / sequence_async
Kids == {<< >>} \cup {<<a>> : a \in Free}
        \cup {<<p[1], p[2]>> : p \in {q \in Free \X Free : q[1] # q[2]}}
        \cup {<<p[1], p[2], p[3]>> :
                 p \in {q \in Free \X Free \X Free :
                           q[1] # q[2] /\ q[1] # q[3] /\ q[2] # q[3]}}

(* --------------------------- specifications --------------------------- *)

\* The script and the driver on one window: the blocking calls (instant and
\* timed), update(), stop requests, and the ticks of _run_animation.
Next ==
    \/ Len(win) = 0 /\ Window(FALSE)
    \/ \E w \in DOMAIN win : Close(w)
    \/ \E w \in DOMAIN win, dur \in Durations, e \in Eases :
          \/ \E dst \in PosDst : Move(w, dst, dur, e)
          \/ \E dst \in SizeDst : Resize(w, dst, dur, e)
          \/ \E dst \in TweenDst("fade") : Fade(w, dst, dur, e)
          \/ \E dst \in TweenDst("color") : ColorTo(w, dst, dur, e)
    \/ \E dur \in TweenDurations : Wait(dur)
    \/ Stop
    \/ Sigint
    \/ \E quit \in BOOLEAN, sig \in SigintPoints : UpdateCall(quit, sig)
    \/ \E quit \in BOOLEAN, sig \in SigintPoints : DriverUpdate(quit, sig)
    \/ \E d \in TickLengths : DriverNext(d)

Spec == Init /\ [][Next]_vars

\* Several windows: instant calls of every kind, timed moves, update() and
\* the ticks of _run_animation.
NextMany ==
    \/ Window(FALSE)
    \/ \E w \in DOMAIN win : Close(w)
    \/ \E w \in DOMAIN win, dur \in {-1, 0} :
          \/ \E dst \in PosDst : Move(w, dst, dur, "linear")
          \/ \E dst \in SizeDst : Resize(w, dst, dur, "linear")
          \/ \E dst \in TweenDst("fade") : Fade(w, dst, dur, "linear")
          \/ \E dst \in TweenDst("color") : ColorTo(w, dst, dur, "linear")
    \/ \E w \in DOMAIN win, dur \in TweenDurations, dst \in PosDst :
          Move(w, dst, dur, "linear")
    \/ \E k \in 0 .. Len(win), dst \in PosDst, dur \in Durations :
          MoveAll([i \in 1 .. k |-> i], dst, dur, "linear")
    \/ \E quit \in BOOLEAN : UpdateCall(quit, "none")
    \/ Stop
    \/ \E quit \in BOOLEAN : DriverUpdate(quit, "none")
    \/ \E d \in TickLengths : DriverNext(d)

SpecMany == Init /\ [][NextMany]_vars

\* The cooperative composition on one window: generators built with the
\* non-blocking calls, combined with parallel_async / sequence_async and
\* run by run_animation.
NextCompose ==
    \/ Len(win) = 0 /\ Window(FALSE)
    \/ \E w \in DOMAIN win, dur \in TweenDurations :
          \/ \E dst \in PosDst : MoveAsync(w, dst, dur, "linear")
          \/ \E o \in OpacityDst :
                o <= 100 /\ FadeAsync(w, <<o>>, dur, "ease_in_quad")
    \/ \E kids \in Kids : ParallelAsync(kids) \/ SequenceAsync(kids)
    \/ \E n \in Free : RunAnimation(n)
    \/ DriverUpdate(FALSE, "none")
    \/ \E d \in TickLengths : DriverNext(d)

SpecCompose == Init /\ [][NextCompose]_vars

\* The deferred-apply model of one window: setters, update(), close().
NextWindow ==
    \/ \E text \in BOOLEAN : Window(text)
    \/ \E w \in DOMAIN win, prop \in Props :
          \E v \in PropValues(prop) : Write(w, prop, v)
    \/ \E w \in DOMAIN win : Close(w)
    \/ \E w \in DOMAIN win : Apply(w)
    \/ \E quit \in BOOLEAN : UpdateCall(quit, "none")

SpecWindow == Init /\ [][NextWindow]_vars

\* Closing: one window (with or without text) that is written, animated
\* by a generator or a blocking fade, applied and closed, before or during
\* a run.
NextClosed ==
    \/ \E text \in BOOLEAN : Len(win) = 0 /\ Window(text)
    \/ \E w \in DOMAIN win : Close(w) \/ CloseConcurrent(w) \/ Apply(w)
    \/ \E w \in DOMAIN win, prop \in Props :
          \E v \in PropValues(prop) : Write(w, prop, v)
    \/ \E w \in DOMAIN win, dur \in TweenDurations, dst \in PosDst :
          MoveAsync(w, dst, dur, "linear")
    \/ \E w \in DOMAIN win, dur \in Durations, dst \in TweenDst("fade") :
          Fade(w, dst, dur, "linear")
    \/ \E n \in Free : RunAnimation(n)
    \/ DriverUpdate(FALSE, "none")
    \/ \E d \in TickLengths : DriverNext(d)

SpecClosed == Init /\ [][NextClosed]_vars

\* The thread-based parallel of two branches on one window, with stop
\* requests.
NextThreads ==
    \/ Len(win) = 0 /\ Window(FALSE)
    \/ \E b1, b2 \in Branches : ParallelThreads(<<b1, b2>>)
    \/ \E n \in Threads : ThreadUpdate(n) \/ ThreadNext(n)
    \/ ThreadTick
    \/ Join
    \/ Stop

SpecThreads == Init /\ [][NextThreads]_vars

\* The thread-based parallel with one animating branch whose update() is
\* taken one loop step at a time, while another thread creates and closes
\* windows.
NextFlush ==
    \/ Window(FALSE)
    \/ \E b \in Branches : ParallelThreads(<<b>>)
    \/ \E n \in Threads : ThreadUpdateBegin(n) \/ ThreadFlushStep(n) \/ ThreadNext(n)
    \/ ThreadTick
    \/ Join
    \/ \E w \in DOMAIN win : CloseConcurrent(w)
    \/ WindowConcurrent(FALSE)

SpecFlush == Init /\ [][NextFlush]_vars

\* The thread-based parallel of two branches on one window, each thread's
\* _apply_changes taken one statement at a time.
NextRace ==
    \/ Len(win) = 0 /\ Window(FALSE)
    \/ \E b1, b2 \in Branches : ParallelThreads(<<b1, b2>>)
    \/ \E n \in Threads : ThreadUpdateBegin(n) \/ ThreadApplyStep(n) \/ ThreadNext(n)
    \/ ThreadTick
    \/ Join

SpecRace == Init /\ [][NextRace]_vars

\* one window; stop() and SIGINT at every point, before and after init and
\* quit, with blocking moves, update() and run()
NextSticky ==
    \/ Len(win) = 0 /\ Window(FALSE)
    \/ InitCall
    \/ QuitCall
    \/ \E w \in DOMAIN win, dur \in TweenDurations, dst \in PosDst :
           Move(w, dst, dur, "linear")
    \/ Stop
    \/ Sigint
    \/ \E quit \in BOOLEAN, sig \in SigintPoints : UpdateCall(quit, sig)
    \/ \E quit \in BOOLEAN, sig \in SigintPoints : DriverUpdate(quit, sig)
    \/ \E d \in TickLengths : DriverNext(d)
    \/ RunCall
    \/ RunCheck
    \/ \E quit \in BOOLEAN, sig \in SigintPoints, fault \in BOOLEAN :
          RunUpdate(quit, sig, fault)
    \/ \E d \in TickLengths : RunSleep(d)

SpecSticky == Init /\ [][NextSticky]_vars

RECURSIVE Span(_), SpanFrom(_, _)
\* the frame intervals within which generator n ends once it is started,
\* the ticks one interval long (a Parallel returns one call after its last
\* child)
Span(n) ==
    CASE tasks[n].kind = "sequence" -> SpanFrom(tasks[n].kids, 1)
      [] tasks[n].kind = "parallel" -> SpanFrom(tasks[n].kids, 1) + 1
      [] OTHER -> tasks[n].dur

SpanFrom(kids, i) ==
    IF i > Len(kids) THEN 0 ELSE Span(kids[i]) + SpanFrom(kids, i + 1)

\* one window; waits, moves and their Parallels and Sequences run by
\* run_animation, every tick one frame interval long, with stop requests
\* during the runs; the generators are built before the first run, and
\* a run is started when the clock of the model has room for it
NextLive ==
    \/ Len(win) = 0 /\ Window(FALSE)
    \/ \E w \in DOMAIN win, dur \in TweenDurations, dst \in PosDst :
          ops = 0 /\ MoveAsync(w, dst, dur, "linear")
    \/ \E kids \in Kids :
          ops = 0 /\ Len(kids) \in 1 .. 2
              /\ (ParallelAsync(kids) \/ SequenceAsync(kids))
    \/ \E n \in Free : now + Span(n) <= MaxTime /\ RunAnimation(n)
    \/ \E dur \in TweenDurations : now + dur <= MaxTime /\ Wait(dur)
    \/ pc # "idle" /\ Stop
    \/ DriverUpdate(FALSE, "none")
    \/ DriverNext(1)

\* one window; up to two tweens of every kind built with negative, zero and
\* positive durations and run, the ticks one or two frame intervals long
NextBuilt ==
    \/ Len(win) = 0 /\ Window(FALSE)
    \/ \E w \in DOMAIN win, kind \in TweenKinds, dur \in Durations, e \in Eases :
          \E dst \in TweenDst(kind) :
             Len(tasks) < 2 /\ BuildTween(kind, w, dst, dur, e)
    \/ \E n \in Free : RunAnimation(n)
    \/ DriverUpdate(FALSE, "none")
    \/ \E d \in TickLengths : DriverNext(d)

SpecBuilt == Init /\ [][NextBuilt]_vars

\* one window; opacity written and flushed, and every blocking animate-to
\* call given names the registry holds and a name it does not hold
NextFail ==
    \/ Len(win) = 0 /\ Window(FALSE)
    \/ \E w \in DOMAIN win : Write(w, "opacity", 50)
    \/ \E w \in DOMAIN win : ApplyAt(w, FALSE)
    \/ \E w \in DOMAIN win, dur \in Durations, n \in CallNames :
          \/ \E kind \in TweenKinds : \E dst \in TweenDst(kind) :
                AnimateCall(kind, w, dst, dur, Named(n))
          \/ FadeInCall(w, dur, Named(n))
          \/ FadeOutCall(w, dur, Named(n))
          \/ \E dst \in PosDst : MoveAllCall(<<w>>, dst, dur, Named(n))
    \/ DriverUpdate(FALSE, "none")
    \/ DriverNext(1)

SpecFail == Init /\ [][NextFail]_vars

\* the easing functions that leave [0, 1] between the ends
OvershootEases ==
    {"ease_in_back", "ease_out_back", "ease_in_elastic", "ease_out_elastic"}

\* opacities and colours written to a window, some of them out of range
WrittenOpacities == {-20, 50, 140}
WrittenColors == {<<300, -5, 128, 255>>, <<0, 0, 0, 0>>}

\* one window; opacity and colour written directly and by fade and
\* color_to with linear and overshooting eases, instantly and over two
\* ticks
NextClamp ==
    \/ Len(win) = 0 /\ Window(FALSE)
    \/ \E w \in DOMAIN win :
          \/ \E v \in WrittenOpacities : Write(w, "opacity", v)
          \/ \E c \in WrittenColors : Write(w, "color", c)
    \/ \E w \in DOMAIN win, dur \in {0, 2}, e \in OvershootEases \cup {"linear"} :
          \/ \E o \in {0, 140} : Fade(w, <<o>>, dur, e)
          \/ \E c \in ColorStops : ColorTo(w, <<c>>, dur, e)
    \/ DriverUpdate(FALSE, "none")
    \/ DriverNext(1)

SpecClamp == Init /\ [][NextClamp]_vars

\* the step by which the loop of _run_animation leaves `next(animation)`
\* (lines 29-36): on to the next update, or out of the loop. In NextLive
\* it is the step DriverNext(1) and no other, and DriverNext(1) can be
\* taken wherever pc = "next" (HasRoom)
LoopAdvance == pc = "next" /\ pc' \in {"update", "idle"}

\* the clock of the model has room for the tick that follows the advance
HasRoom == pc = "next" => (now < MaxTime \/ GenNext(Machine, root).done)

\* the loop of _run_animation goes on: the thread that runs it is scheduled
\* (it stays neither before update() nor before next() for ever) and the
\* clock moves from tick to tick
SpecLive ==
    /\ Init /\ [][NextLive]_vars
    /\ WF_vars(DriverUpdate(FALSE, "none"))
    /\ WF_pc(LoopAdvance)

\* one window; get_easing, the blocking calls and the builders given names
\* (get_easing is called before any task exists, the functions before any
\* window exists, and one task is built)
NextEasing ==
    \/ Len(win) = 0 /\ Window(FALSE)
    \/ \E n \in EaseNames : Len(tasks) = 0 /\ GetEasingCall(Named(n))
    \/ \E f \in Eases : Len(tasks) = 0 /\ GetEasingCall(Function(f))
    \/ \E i \in DOMAIN EASING_FUNCTIONS, t \in Boundaries :
           Len(win) = 0 /\ EaseCall(Named(RegistryNames[i]), t)
    \/ \E w \in DOMAIN win, dur \in Durations, dst \in PosDst, n \in CallNames :
           AnimateCall("move", w, dst, dur, Named(n))
    \/ \E w \in DOMAIN win, dur \in Durations, dst \in TweenDst("fade"), n \in CallNames :
           AnimateCall("fade", w, dst, dur, Named(n))
    \/ \E w \in DOMAIN win, dur \in Durations, dst \in PosDst, n \in CallNames :
           MoveAllCall(<<w>>, dst, dur, Named(n))
    \/ \E w \in DOMAIN win, dur \in Durations, dst \in PosDst, n \in CallNames :
           Len(tasks) = 0 /\ BuildCall("move", w, dst, dur, Named(n))
    \/ \E n \in Free : RunAnimation(n)
    \/ DriverUpdate(FALSE, "none")
    \/ \E d \in TickLengths : DriverNext(d)

SpecEasing == Init /\ [][NextEasing]_vars

\* one window; the host's handler, init and quit, blocking moves, and
\* SIGINT at every point
NextSignal ==
    \/ Len(win) = 0 /\ Window(FALSE)
    \/ \E h \in PriorHandlers : HostHandler(h)
    \/ InitCall
    \/ QuitCall
    \/ \E w \in DOMAIN win, dur \in TweenDurations, dst \in PosDst :
           Move(w, dst, dur, "linear")
    \/ Sigint
    \/ SigintOutside
    \/ \E sig \in SigintPoints : DriverUpdate(FALSE, sig)
    \/ \E d \in TickLengths : DriverNext(d)

SpecSignal == Init /\ [][NextSignal]_vars

\* one window; tweens run on their own and in Sequences, every tick one
\* frame interval long
NextPaced ==
    \/ Len(win) = 0 /\ Window(FALSE)
    \/ \E w \in DOMAIN win, dur \in TweenDurations :
          \/ \E dst \in PosDst : MoveAsync(w, dst, dur, "linear")
          \/ \E o \in OpacityDst :
                o <= 100 /\ FadeAsync(w, <<o>>, dur, "ease_in_quad")
    \/ \E kids \in Kids : SequenceAsync(kids)
    \/ \E n \in Free : RunAnimation(n)
    \/ DriverUpdate(FALSE, "none")
    \/ DriverNext(1)

SpecPaced == Init /\ [][NextPaced]_vars

\* one window; moves and resizes run on their own and in Parallels, the
\* clock moving on between the reads of one call
\* one window recoloured by blocking color_to calls
NextColor ==
    \/ Len(win) = 0 /\ Window(FALSE)
    \/ \E w \in DOMAIN win, dur \in ColorDurations, e \in Eases, c \in ColorStops :
           ColorTo(w, <<c>>, dur, e)
    \/ DriverUpdate(FALSE, "none")
    \/ \E d \in TickLengths : DriverNext(d)

SpecColor == Init /\ [][NextColor]_vars

\* one window animated by blocking calls of the four kinds
NextTween ==
    \/ Len(win) = 0 /\ Window(FALSE)
    \/ \E w \in DOMAIN win, dur \in TweenDurations, e \in Eases :
          \/ \E dst \in GridPosDst : Move(w, dst, dur, e)
          \/ \E dst \in SizeDst : Resize(w, dst, dur, e)
          \/ Fade(w, <<20>>, dur, e)
          \/ \E dst \in TweenDst("color") : ColorTo(w, dst, dur, e)
    \/ DriverUpdate(FALSE, "none")
    \/ \E d \in TickLengths : DriverNext(d)

SpecTween == Init /\ [][NextTween]_vars

\* composites of moves and resizes, some of them with an easing function
\* of the caller that raises half way
FaultEases == {"linear", "faulty"}

NextFault ==
    \/ Len(win) = 0 /\ Window(FALSE)
    \/ \E w \in DOMAIN win, e \in FaultEases :
          \/ \E dst \in PosDst : MoveAsync(w, dst, 2, e)
          \/ \E dst \in SizeDst : ResizeAsync(w, dst, 2, e)
    \/ \E kids \in Kids :
          /\ Len(kids) \in {1, 2}
          /\ ParallelAsync(kids) \/ SequenceAsync(kids)
    \/ \E n \in Free : RunAnimation(n)
    \/ DriverUpdate(FALSE, "none")
    \/ DriverNext(1)

SpecFault == Init /\ [][NextFault]_vars

\* windows created, written, closed (once and again) and flushed; the
\* desktop cleared and quit
NextRegistry ==
    \/ \E text \in BOOLEAN : Window(text)
    \/ \E w \in DOMAIN win, prop \in Props :
          \E v \in PropValues(prop) : Write(w, prop, v)
    \/ \E w \in DOMAIN win : Close(w) \/ CloseAgain(w)
    \/ ClearCall
    \/ QuitCall
    \/ \E quit \in BOOLEAN : UpdateCall(quit, "none")

SpecRegistry == Init /\ [][NextRegistry]_vars

\* Desktop.run() over windows that are written and closed, with stop(),
\* SIGINT, quit events and a failing tick
NextRun ==
    \/ \E text \in BOOLEAN : Window(text)
    \/ \E w \in DOMAIN win, prop \in Props :
          \E v \in PropValues(prop) : Len(win) = 1 /\ Write(w, prop, v)
    \/ RunCall
    \/ RunCheck
    \/ \E quit \in BOOLEAN, sig \in SigintPoints, fault \in BOOLEAN :
          RunUpdate(quit, sig, fault)
    \/ \E d \in TickLengths : RunSleep(d)
    \/ Stop
    \/ Sigint

SpecRun == Init /\ [][NextRun]_vars

\* windows written and flushed, with and without a new frame of their
\* time-driven content
NextApply ==
    \/ \E text \in BOOLEAN : Window(text)
    \/ \E w \in DOMAIN win, prop \in Props :
          \E v \in PropValues(prop) : Write(w, prop, v)
    \/ \E w \in DOMAIN win : Close(w)
    \/ \E w \in DOMAIN win, frame \in BOOLEAN : ApplyAt(w, frame)

SpecApply == Init /\ [][NextApply]_vars

\* windows with and without text; any selection of the flag-setting
\* properties written, then the window flushed, with and without a new
\* frame of its time-driven content
NextFlags ==
    \/ \E text \in BOOLEAN : Window(text)
    \/ \E w \in DOMAIN win, S \in SUBSET Range(FlagProps) :
          WriteProps(w, SelectSeq(FlagProps, LAMBDA p : p \in S))
    \/ \E w \in DOMAIN win : Close(w)
    \/ \E w \in DOMAIN win, frame \in BOOLEAN : ApplyAt(w, frame)

SpecFlags == Init /\ [][NextFlags]_vars

\* generators built on an untouched window, the window written
\* afterwards, then the generators run
NextCapture ==
    \/ Len(win) = 0 /\ Window(FALSE)
    \/ \E w \in DOMAIN win :
          /\ ops = 0
          /\ \/ \E dst \in PosDst : MoveAsync(w, dst, 2, "linear")
             \/ \E dst \in SizeDst : ResizeAsync(w, dst, 2, "linear")
    \/ \E kids \in Kids :
          ops = 0 /\ Len(kids) = 2 /\ (SequenceAsync(kids) \/ ParallelAsync(kids))
    \/ \E w \in DOMAIN win, prop \in {"x", "position", "size"} :
          \E v \in PropValues(prop) : Len(tasks) > 0 /\ Write(w, prop, v)
    \/ \E n \in Free : RunAnimation(n)
    \/ DriverUpdate(FALSE, "none")
    \/ \E d \in TickLengths : DriverNext(d)

SpecCapture == Init /\ [][NextCapture]_vars

NextSkew ==
    \/ Len(win) = 0 /\ Window(FALSE)
    \/ \E w \in DOMAIN win, dur \in TweenDurations :
          \/ \E dst \in PosDst : MoveAsync(w, dst, dur, "linear")
          \/ \E dst \in SizeDst : ResizeAsync(w, dst, dur, "linear")
    \/ \E kids \in Kids : Len(tasks) < 3 /\ Len(kids) = 2 /\ ParallelAsync(kids)
    \/ \E n \in Free : RunAnimation(n)
    \/ DriverUpdate(FALSE, "none")
    \/ \E d \in TickLengths, late \in LateSets : DriverNextAt(d, late)

SpecSkew == Init /\ [][NextSkew]_vars

(* ------------------------------ claims --------------------------------- *)

\* next() was called on generator n during the call logged in log
Advanced(log, n) == \E i \in DOMAIN log : log[i].op = "next" /\ log[i].node = n

\* how many times
NextCount(log, n) ==
    Cardinality({i \in DOMAIN log : log[i].op = "next" /\ log[i].node = n})

\* the values generator n assigned during the call, in order
Assigned(log, n) ==
    LET sets == SelectSeq(log, LAMBDA e : e.op = "set" /\ e.node = n)
    IN  [i \in DOMAIN sets |-> sets[i].val]

\* the current values of the properties a tween of this kind animates
TweenTarget(r, kind) ==
    [i \in DOMAIN TweenProps(kind) |-> GetProp(r, TweenProps(kind)[i])]

\* what the host shows of a window
Shown(r) == <<r.shown_pos, r.shown_size, r.shown_opacity, r.shown_color>>

\* what the host would show of a window with nothing pending
Logical(r) ==
    <<<<Px(r.x), Px(r.y)>>, <<Px(r.w), Px(r.h)>>, r.opacity, r.color>>

\* no flag of the window is pending
Clean(r) ==
    ~(r.position_dirty \/ r.size_dirty \/ r.opacity_dirty
        \/ r.text_dirty \/ r.dirty)

IsTween(t, n) ==
    n \in DOMAIN t /\ t[n].kind \in TweenKinds /\ t[n].dur > 0

\* this step advances tween n (suspended at its yield) with elapsed >= D
FinalAdvance(n) ==
    /\ IsTween(tasks, n)
    /\ tasks[n].st = "running"
    /\ now - tasks[n].t0 >= tasks[n].dur
    /\ Advanced(ev', n)

\* this step makes tween n report done
BecomesDone(n) ==
    /\ IsTween(tasks, n) /\ n \in DOMAIN tasks'
    /\ tasks[n].st # "done" /\ tasks'[n].st = "done"
    /\ Advanced(ev', n)

\* the end value as the property setter stores it: opacity is clamped
EndStored(k) ==
    IF k.kind = "fade" THEN <<ClampOpacity(k.dst[1])>> ELSE k.dst

\* C1 as stated: the first advance of a tween with elapsed >= D > 0 reports
\* done and leaves the property equal to the requested end value.
C1_Original ==
    [][\A n \in DOMAIN tasks :
          FinalAdvance(n) =>
              /\ tasks'[n].st = "done"
              /\ TweenTarget(win'[tasks[n].win], tasks[n].kind) = tasks[n].dst]_vars

\* C1 amended: the first advance of a tween (move, resize, fade, color)
\* with elapsed >= D > 0 assigns the requested end value itself, not an
\* interpolated one, and reports done, and no earlier advance reports done;
\* after it the property equals the requested end value, for opacity the
\* requested end value clamped to [0, 1].
C1_EndValue ==
    [][\A n \in DOMAIN tasks :
          /\ FinalAdvance(n) =>
                /\ tasks'[n].st = "done"
                /\ Assigned(ev', n) = EndStored(tasks[n])
                /\ TweenTarget(win'[tasks[n].win], tasks[n].kind)
                      = EndStored(tasks[n])
          /\ BecomesDone(n) => FinalAdvance(n)]_vars

\* a fade to an opacity above 1.0 has ended, overshooting its duration
C1_Witness ==
    \E n \in DOMAIN tasks :
        /\ tasks[n].kind = "fade" /\ tasks[n].dst[1] > 100
        /\ tasks[n].st = "done" /\ Advanced(ev, n)
        /\ now - tasks[n].t0 > tasks[n].dur
        /\ win[tasks[n].win].opacity = 100

\* the script's own assignments of a call, as <<window, property, value>>
ScriptSets(log) ==
    [i \in DOMAIN log |-> <<log[i].op, log[i].node, log[i].win, log[i].what>>]

\* what an instant call on windows ws must have done and not done
InstantEffect(kind, ws, dst) ==
    /\ tasks' = tasks /\ pc' = pc /\ root' = root /\ desktop' = desktop
    /\ now' = now
    /\ ScriptSets(ev') =
          [i \in 1 .. Len(ws) * Len(TweenProps(kind)) |->
              <<"set", 0, ws[((i - 1) \div Len(TweenProps(kind))) + 1],
                TweenProps(kind)[((i - 1) % Len(TweenProps(kind))) + 1]>>]
    /\ \A w \in DOMAIN win :
          /\ Shown(win'[w]) = Shown(win[w])
          /\ w \in Range(ws) =>
                TweenTarget(win'[w], kind) =
                    EndStored([kind |-> kind, dst |-> dst])
          /\ w \notin Range(ws) => win'[w] = win[w]

\* C2: a blocking move, resize, fade, color_to or move_all with
\* duration <= 0 assigns the destination to the target(s) and returns: no
\* generator is created, the driver does not tick (no pump, no flush, no
\* next()), and the Desktop is not touched.
C2_InstantBypass ==
    [][\A w \in DOMAIN win, dur \in Durations, e \in Eases :
          dur <= 0 =>
            /\ \A dst \in PosDst :
                  Move(w, dst, dur, e) => InstantEffect("move", <<w>>, dst)
            /\ \A dst \in SizeDst :
                  Resize(w, dst, dur, e) => InstantEffect("resize", <<w>>, dst)
            /\ \A dst \in TweenDst("fade") :
                  Fade(w, dst, dur, e) => InstantEffect("fade", <<w>>, dst)
            /\ \A dst \in TweenDst("color") :
                  ColorTo(w, dst, dur, e) => InstantEffect("color", <<w>>, dst)
            /\ \A dst \in PosDst :
                  MoveAll([i \in 1 .. w |-> i], dst, dur, e) =>
                      InstantEffect("move", [i \in 1 .. w |-> i], dst)]_vars

\* an instant move_all of two windows has just returned, nothing flushed
C2_Witness ==
    /\ pc = "idle" /\ tasks = << >> /\ Len(ev) = 4
    /\ \A i \in DOMAIN ev : ev[i].op = "set" /\ ev[i].node = 0
    /\ ev[1].win = 1 /\ ev[3].win = 2
    /\ \A w \in DOMAIN win :
          win[w].x = 9 /\ win[w].position_dirty /\ win[w].shown_pos = <<0, 0>>

\* the children of composite n on which next() was called, in call order
KidNexts(log, n) ==
    LET calls == SelectSeq(log, LAMBDA e : e.op = "next"
                                      /\ e.node \in Range(tasks[n].kids))
    IN  [i \in DOMAIN calls |-> calls[i].node]

\* generator n raised StopIteration before position p of the log
StoppedBefore(log, n, p) ==
    \E q \in 1 .. (p - 1) : log[q].op = "stop" /\ log[q].node = n

IsKind(n, kind) == tasks[n].kind = kind

\* C3: in a Sequence a later child has not been started while an earlier
\* one is not done, and within every call next() reaches a later child only
\* after every earlier child has raised StopIteration.
C3_SequenceOrder ==
    /\ [](\A s \in DOMAIN tasks :
            IsKind(s, "sequence") =>
                \A i, j \in DOMAIN tasks[s].kids :
                    i < j /\ tasks[tasks[s].kids[j]].st # "new"
                        => tasks[tasks[s].kids[i]].st = "done")
    /\ [][\A s \in DOMAIN tasks :
            IsKind(s, "sequence") =>
                \A i, j \in DOMAIN tasks[s].kids, p \in DOMAIN ev' :
                    (i < j /\ ev'[p].op = "next"
                           /\ ev'[p].node = tasks[s].kids[j])
                        => \/ tasks[tasks[s].kids[i]].st = "done"
                           \/ StoppedBefore(ev', tasks[s].kids[i], p)]_vars

\* the first child of a Sequence of two is done, the second is under way
C3_Witness ==
    \E s \in DOMAIN tasks :
        /\ IsKind(s, "sequence") /\ Len(tasks[s].kids) = 2
        /\ tasks[s].st = "running"
        /\ tasks[tasks[s].kids[1]].st = "done"
        /\ tasks[tasks[s].kids[2]].st = "running"

\* the active list a Parallel holds when it is resumed (or started)
ActiveOf(p) == IF tasks[p].st = "new" THEN tasks[p].kids ELSE tasks[p].active

\* C4: a call of next() on a Parallel calls next() on each child of its
\* active list once, in list order, and on no other child; the children
\* that raised StopIteration leave the list, and next() is never again
\* called on a child that is done.
C4_ParallelPass ==
    [][\A p \in DOMAIN tasks :
          IsKind(p, "parallel") =>
             /\ KidNexts(ev', p) =
                   IF Advanced(ev', p) /\ tasks[p].st # "done"
                   THEN ActiveOf(p) ELSE << >>
             /\ Advanced(ev', p) /\ tasks[p].st # "done" =>
                   tasks'[p].active =
                       SelectSeq(ActiveOf(p), LAMBDA k : tasks'[k].st # "done")
             /\ \A k \in Range(tasks[p].kids) :
                   tasks[k].st = "done" =>
                       ~Advanced(ev', k) /\ tasks'[k] = tasks[k]]_vars

\* a Parallel of two whose first child ended earlier: the last call
\* advanced only the second
C4_Witness ==
    \E p \in DOMAIN tasks :
        /\ IsKind(p, "parallel") /\ Len(tasks[p].kids) = 2
        /\ tasks[p].st = "running"
        /\ tasks[tasks[p].kids[1]].st = "done"
        /\ Advanced(ev, p)
        /\ NextCount(ev, tasks[p].kids[1]) = 0
        /\ NextCount(ev, tasks[p].kids[2]) = 1

\* C5 as stated: the call in which the last active child of a Parallel
\* ends reports the Parallel done.
C5_Original ==
    [][\A p \in DOMAIN tasks :
          (/\ IsKind(p, "parallel") /\ Advanced(ev', p)
           /\ ActiveOf(p) # << >> /\ tasks'[p].active = << >>)
              => tasks'[p].st = "done"]_vars

\* C5 amended: a Parallel reports done exactly on a call that finds its
\* active list empty; the call in which the last active child ends reports
\* pending, and the next call reports done without advancing any child (a
\* Parallel without children is done on its first call).
C5_ParallelDone ==
    [][\A p \in DOMAIN tasks :
          (IsKind(p, "parallel") /\ Advanced(ev', p) /\ tasks[p].st # "done")
              => /\ tasks'[p].st = "done" <=> ActiveOf(p) = << >>
                 /\ tasks'[p].st = "done" => KidNexts(ev', p) = << >>]_vars

\* a Parallel with children is done: its last call advanced none of them
C5_Witness ==
    \E p \in DOMAIN tasks :
        /\ IsKind(p, "parallel") /\ tasks[p].kids # << >>
        /\ tasks[p].st = "done"
        /\ Advanced(ev, p) /\ KidNexts(ev, p) = << >>
        /\ \A k \in Range(tasks[p].kids) : tasks[k].st = "done"

HeadOf(s) == IF tasks[s].st = "new" THEN 1 ELSE tasks[s].idx

\* the children from the head on that one call runs through: up to the
\* first that is still not done after the call
RunThrough(s) ==
    LET kids == tasks[s].kids
        open == {i \in HeadOf(s) .. Len(kids) : tasks'[kids[i]].st # "done"}
        last == IF open = {} THEN Len(kids)
                ELSE CHOOSE i \in open : \A j \in open : i <= j
    IN  SubSeq(kids, HeadOf(s), last)

LiveWindows == SelectSeq(desktop.windows, LAMBDA i : ~win[i].closed)

\* the windows _apply_changes was entered for during a call, in order
Applies(log) ==
    LET calls == SelectSeq(log, LAMBDA e : e.op = "apply")
    IN  [i \in DOMAIN calls |-> calls[i].win]

\* positions of the log with one of these operations
At(log, opset) == {i \in DOMAIN log : log[i].op \in opset}

\* positions of the log where a generator ran or assigned
TaskEvents(log) ==
    {i \in DOMAIN log : \/ log[i].op \in {"next", "yield", "stop"}
                        \/ log[i].op = "set" /\ log[i].node # 0}

C8_StopExits ==
    [][/\ \A quit \in BOOLEAN, sig \in SigintPoints :
             (/\ DriverUpdate(quit, sig)
              /\ desktop.stop_requested \/ quit \/ sig # "none")
                 => /\ pc' = "idle" /\ root' = 0
                    /\ tasks' = tasks
                    /\ TaskEvents(ev') = {}
                    /\ \A w \in DOMAIN win :
                          \A prop \in Props :
                              GetProp(win'[w], prop) = GetProp(win[w], prop)
       /\ pc = "idle" =>
             /\ TaskEvents(ev') = {}
             /\ \A n \in DOMAIN tasks' :
                   \/ n \in DOMAIN tasks /\ tasks'[n] = tasks[n]
                   \/ tasks'[n].st = "new"]_vars

\* a stop flag ended the loop of a move that was under way: its generator
\* is left suspended and the window short of the destination
C8_Witness ==
    /\ pc = "idle" /\ root = 0 /\ desktop.stop_requested
    /\ \E n \in DOMAIN tasks :
          /\ tasks[n].kind = "move" /\ tasks[n].st = "running"
          /\ win[tasks[n].win].x < tasks[n].dst[1]
          /\ now - tasks[n].t0 >= tasks[n].dur

\* C9: an update() of the loop that is not stopped (no stop flag at entry,
\* no quit event in the pump) enters _apply_changes for every registered
\* window that is not closed, whether a generator animates it or not, and
\* leaves each of them with no flag pending and the host showing its
\* logical values.
C9_FlushAll ==
    [][\A quit \in BOOLEAN :
          (DriverUpdate(quit, "none") /\ ~desktop.stop_requested /\ ~quit)
             => /\ pc' = "next"
                /\ \A w \in Range(LiveWindows) :
                      /\ \E i \in DOMAIN ev' :
                            ev'[i].op = "apply" /\ ev'[i].win = w
                      /\ Clean(win'[w])
                      /\ Shown(win'[w]) = Logical(win[w])
                      /\ Logical(win'[w]) = Logical(win[w])]_vars

\* a window no generator animates was moved by an instant call; a tick of
\* the loop of another window's move has put it where it belongs
C9_Witness ==
    /\ pc = "next"
    /\ \E w \in Range(LiveWindows) :
          /\ \A n \in DOMAIN tasks : tasks[n].win # w
          /\ win[w].x = 9 /\ win[w].shown_pos = <<4, 2>>
          /\ \E i \in DOMAIN ev : ev[i].op = "sdl" /\ ev[i].win = w
    /\ root # 0 /\ tasks[root].kind = "move"

\* the value a setter stores for a written value
Stored(prop, v) ==
    CASE prop = "opacity" -> ClampOpacity(v)
      [] prop = "color" -> ClampColor(v)
      [] OTHER -> v

\* the flag a setter sets
FlagOf(prop) ==
    CASE prop \in {"x", "y", "position"} -> "position_dirty"
      [] prop \in {"w", "h", "size"} -> "size_dirty"
      [] prop = "opacity" -> "opacity_dirty"
      [] prop = "color" -> "dirty"

Flags == {"position_dirty", "size_dirty", "opacity_dirty", "dirty", "text_dirty"}

\* C10: `win.prop = v` for x, y, w, h, position, size, opacity, color
\* stores the value at once, so that the getter returns it (an opacity as
\* clamped to [0, 1]), sets the flag of the property and no other, and
\* does nothing else: what the host shows, the other windows and the
\* Desktop are as before, and no host call is made.
C10_SetterDefers ==
    [][\A w \in DOMAIN win, prop \in Props :
          \A v \in PropValues(prop) :
              Write(w, prop, v) =>
                 /\ GetProp(win'[w], prop) = Stored(prop, v)
                 /\ win'[w][FlagOf(prop)]
                 /\ \A f \in Flags \ {FlagOf(prop)} : win'[w][f] = win[w][f]
                 /\ Shown(win'[w]) = Shown(win[w])
                 /\ win'[w].closed = win[w].closed
                 /\ \A u \in DOMAIN win : u # w => win'[u] = win[u]
                 /\ desktop' = desktop
                 /\ At(ev', {"pump", "apply", "sdl"}) = {}]_vars

\* a position was written and reads back, and the host has not moved the
\* window
C10_Witness ==
    \E w \in DOMAIN win :
        /\ ~win[w].closed
        /\ GetProp(win[w], "position") = <<9, 4>>
        /\ win[w].position_dirty /\ win[w].shown_pos = <<0, 0>>
        /\ Len(ev) = 1 /\ ev[1].op = "set" /\ ev[1].what = "position"

\* _apply_changes was entered for window w during the call
Applied(log, w) == \E i \in DOMAIN log : log[i].op = "apply" /\ log[i].win = w

\* the host calls made for window w during the call
SdlCalls(log, w) ==
    LET calls == SelectSeq(log, LAMBDA e : e.op = "sdl" /\ e.win = w)
    IN  [i \in DOMAIN calls |-> calls[i].what]

\* C11: an apply of a window that directly follows an apply of the same
\* window (nothing written in between), and an apply of a window with no
\* flag pending, make no host call and leave the window as it is.
C11_ApplyIdempotent ==
    [][\A w \in DOMAIN win :
          (Applied(ev', w) /\ (Applied(ev, w) \/ Clean(win[w])))
              => SdlCalls(ev', w) = << >> /\ win'[w] = win[w]]_vars

\* a written position was applied, and a second apply has just done nothing
C11_Witness ==
    \E w \in DOMAIN win :
        /\ ~win[w].closed
        /\ ev = <<Event("apply", 0, w, "", << >>)>>
        /\ win[w].x = 9 /\ win[w].shown_pos[1] = 4
        /\ Clean(win[w])

\* C12: once a window is closed it stays closed and out of the registry,
\* and whatever follows (setter writes by the script or by a generator
\* that holds the window, direct applies, ticks of the loop) makes no host
\* call for it and leaves what the host showed unchanged, an apply
\* changing nothing at all; a tween of a closed window is advanced as any
\* other: it assigns through the setters and reports done on its first
\* advance with elapsed >= duration.
C12_ClosedInert ==
    [][\A w \in DOMAIN win :
          win[w].closed =>
             /\ win'[w].closed
             /\ w \notin Range(desktop'.windows)
             /\ SdlCalls(ev', w) = << >>
             /\ Shown(win'[w]) = Shown(win[w])
             /\ Apply(w) => win'[w] = win[w]
             /\ \A n \in DOMAIN tasks :
                   (IsTween(tasks, n) /\ tasks[n].win = w /\ Advanced(ev', n))
                       => /\ Assigned(ev', n) # << >>
                          /\ tasks'[n].st = "done" <=>
                                (tasks[n].st = "running"
                                   /\ now - tasks[n].t0 >= tasks[n].dur)]_vars

\* a move of a closed window has run to its end: the destination is
\* stored, the flag is pending, the host was never told
C12_Witness ==
    \E n \in DOMAIN tasks :
        /\ tasks[n].kind = "move" /\ tasks[n].st = "done"
        /\ win[tasks[n].win].closed
        /\ pc = "idle" /\ Advanced(ev, n)
        /\ win[tasks[n].win].x = 9
        /\ win[tasks[n].win].position_dirty
        /\ win[tasks[n].win].shown_pos = <<0, 0>>

\* the other branches that animate the property branch n animates
Rivals(n) ==
    {m \in Threads \ {n} :
        tasks[m].win = tasks[n].win /\ tasks[m].kind = tasks[n].kind}

\* parallel(...) returns in this step
Returns == pc = "join" /\ pc' = "idle"

\* C13 as stated: parallel(...) returns when every thread has ended, and
\* without a stop request every branch is done and every property is left
\* as the cooperative Parallel of the same tweens leaves it: where several
\* branches of one duration animate the same property they end in the
\* same pass of the Parallel, in list order, so the last of them decides.
C13_Original ==
    [][Returns =>
          /\ \A n \in Threads : tasks[n].tpc = "exit"
          /\ ~desktop.stop_requested =>
                \A n \in Threads :
                    /\ tasks[n].st = "done"
                    /\ (\A m \in Rivals(n) :
                           tasks[m].dur = tasks[n].dur /\ m < n)
                          => TweenTarget(win[tasks[n].win], tasks[n].kind)
                                = EndStored(tasks[n])]_vars

\* C13 amended: parallel(...) returns when every thread has ended, and
\* without a stop request every branch is then done and every property
\* that only one branch animates holds that branch's end value, whatever
\* the interleaving (nothing is said of a property that several branches
\* animate).
C13_ThreadsJoin ==
    [][Returns =>
          /\ \A n \in Threads : tasks[n].tpc = "exit"
          /\ ~desktop.stop_requested =>
                \A n \in Threads :
                    /\ tasks[n].st = "done"
                    /\ Rivals(n) = {} =>
                          TweenTarget(win[tasks[n].win], tasks[n].kind)
                              = EndStored(tasks[n])]_vars

\* parallel of a move and a fade of one window has returned, both done
C13_Witness ==
    /\ pc = "idle" /\ ~desktop.stop_requested
    /\ \E n, m \in Threads :
          /\ tasks[n].kind = "move" /\ tasks[m].kind = "fade"
          /\ tasks[n].st = "done" /\ tasks[m].st = "done"
          /\ tasks[n].tpc = "exit" /\ tasks[m].tpc = "exit"
          /\ tasks[n].dur # tasks[m].dur
          /\ <<win[tasks[n].win].x, win[tasks[n].win].y>> = tasks[n].dst
          /\ win[tasks[m].win].opacity = tasks[m].dst[1]

\* the names of the inputs that the registry does not hold in any spelling
UnknownNames == {n \in EaseNames \cup CallNames : Unknown(Normalize(n))}

\* some call of the kinds named is made with selector sel and a duration of
\* durs: a blocking call (move, fade, move_all) or a builder
BlockingCall(sel, durs) ==
    \E w \in DOMAIN win, dur \in durs :
        \/ \E dst \in PosDst : AnimateCall("move", w, dst, dur, sel)
        \/ \E dst \in TweenDst("fade") : AnimateCall("fade", w, dst, dur, sel)
        \/ \E dst \in PosDst : MoveAllCall(<<w>>, dst, dur, sel)

BuilderCall(sel, durs) ==
    \E w \in DOMAIN win, dur \in durs, dst \in PosDst :
        BuildCall("move", w, dst, dur, sel)

\* the step ends in a ValueError for the name n whose message lists every
\* name of the registry, and nothing was written, built or started
FailsListing(n) ==
    /\ Len(ev') = 1
    /\ ev'[1].op = "raise"
    /\ ev'[1].val.given = n
    /\ \A i \in DOMAIN EASING_FUNCTIONS :
           \E j \in DOMAIN ev'[1].val.names :
               ev'[1].val.names[j] = EASING_FUNCTIONS[i][1]
    /\ UNCHANGED <<desktop, win, tasks, pc, root, now>>

\* the step raises nothing
NoRaise == \A i \in DOMAIN ev' : ev'[i].op # "raise"

\* C14 as stated: an unknown easing name fails at once with an error that
\* lists all the valid names, in get_easing and in every blocking call and
\* every builder given the name, whatever the duration.
C14_Original ==
    [][\A n \in UnknownNames :
          (\/ GetEasingCall(Named(n))
           \/ BlockingCall(Named(n), Durations)
           \/ BuilderCall(Named(n), Durations)) => FailsListing(n)]_vars

\* C14 (amended): an unknown easing name fails at once with an error that
\* lists all the valid names, with nothing written, built or started, in
\* get_easing, in every builder whatever the duration and in every blocking
\* call of positive duration; a blocking call of duration <= 0 returns
\* before the name is resolved: it raises nothing and makes its writes.
C14_UnknownName ==
    [][\A n \in UnknownNames :
          /\ (\/ GetEasingCall(Named(n))
              \/ BlockingCall(Named(n), {d \in Durations : d > 0})
              \/ BuilderCall(Named(n), Durations)) => FailsListing(n)
          /\ BlockingCall(Named(n), {d \in Durations : d <= 0}) =>
                /\ NoRaise
                /\ ev' # << >>
                /\ \A i \in DOMAIN ev' : ev'[i].op = "set"
                /\ tasks' = tasks]_vars

\* a ValueError for "bogus" listing the registry, raised while a built task
\* exists
C14_Witness ==
    /\ Len(ev) = 1
    /\ ev[1].op = "raise"
    /\ ev[1].val.given = <<"b", "o", "g", "u", "s">>
    /\ Len(ev[1].val.names) = Len(EASING_FUNCTIONS)
    /\ Len(tasks) > 0

\* two characters that differ at most in case or in the separator used
SameChar(c, d) ==
    \/ c = d
    \/ {c, d} \subseteq {"_", "-", " "}
    \/ \E k \in DOMAIN LowerCase : {c, d} \subseteq {LowerCase[k], UpperCase[k]}

\* two names that differ only in letter case or in the separators used
SameName(a, b) ==
    /\ Len(a) = Len(b)
    /\ \A i \in DOMAIN a : SameChar(a[i], b[i])

\* what the get_easing call of this step gave: the function, or "" on error
Resolved == IF ev'[1].val.ok THEN ev'[1].val.fn ELSE ""

\* C15: get_easing returns a function given as argument unchanged, and two
\* names that differ only in letter case or in using '-' or ' ' for '_'
\* resolve alike: to the identical function, or both to the error.
C15_NameLookup ==
    [][/\ \A f \in Eases :
             GetEasingCall(Function(f)) => ev'[1].op = "return" /\ Resolved = f
       /\ \A a \in EaseNames :
             GetEasingCall(Named(a)) =>
                 \A b \in EaseNames :
                     SameName(a, b) =>
                         /\ ev'[1].val.ok = GetEasing(Named(b)).ok
                         /\ Resolved = GetEasing(Named(b)).fn]_vars

\* get_easing("Ease-Out") has returned the function registered as ease_out
C15_Witness ==
    /\ Len(ev) = 1
    /\ ev[1].op = "return"
    /\ ev[1].what = "get_easing"
    /\ ev[1].val.fn = "ease_out_quad"

C17_Original ==
    [][/\ Stop => desktop'.stop_requested
       /\ \A sig \in SigintPoints :
             (DriverUpdate(TRUE, sig) \/ UpdateCall(TRUE, sig))
                 => desktop'.stop_requested
       /\ \A quit \in BOOLEAN, sig \in SigintPoints :
             (DriverUpdate(quit, sig) /\ desktop.stop_requested)
                 => pc' = "idle" /\ ev' = << >>]_vars

IsComposite(n) == tasks[n].kind \in {"parallel", "sequence"}

RECURSIVE Leaves(_)
\* the tweens under generator n, at any depth
Leaves(n) ==
    IF IsComposite(n)
    THEN UNION {Leaves(tasks[n].kids[i]) : i \in DOMAIN tasks[n].kids}
    ELSE {n}

\* generator n holds a composite that holds a tween
Nested(n) ==
    \E i \in DOMAIN tasks[n].kids :
        /\ IsComposite(tasks[n].kids[i])
        /\ Leaves(tasks[n].kids[i]) # {}

\* C18: a Parallel or Sequence, whatever it holds (tweens, Parallels,
\* Sequences, to any depth), is done only when every tween under it is
\* done; the advance in which such a tween reports done assigns its end
\* value, and nothing else, to its property (the value as the property
\* stores it); and a tween that is done is not advanced again.
C18_NestedDone ==
    /\ [](\A c \in DOMAIN tasks :
            (IsComposite(c) /\ tasks[c].st = "done")
                => \A n \in Leaves(c) : tasks[n].st = "done")
    /\ [][\A c \in DOMAIN tasks :
            IsComposite(c) =>
                \A n \in Leaves(c) :
                    /\ (tasks[n].st # "done" /\ tasks'[n].st = "done") =>
                          Assigned(ev', n) = EndStored(tasks[n])
                    /\ tasks[n].st = "done" =>
                          ~Advanced(ev', n) /\ tasks'[n] = tasks[n]]_vars

\* a composite holding a composite of two tweens has been run to done
C18_Witness ==
    \E c \in DOMAIN tasks :
        /\ IsComposite(c) /\ Nested(c)
        /\ tasks[c].st = "done"
        /\ Cardinality(Leaves(c)) = 2
        /\ Advanced(ev, c)

\* tween n was run on its own: no composite holds it
OnItsOwn(n) ==
    /\ IsTween(tasks, n)
    /\ \A c \in DOMAIN tasks : n \notin Range(tasks[c].kids)

\* s is Sequence([A, B]) of two tweens
SequenceOfTwo(s) ==
    /\ IsKind(s, "sequence") /\ Len(tasks[s].kids) = 2
    /\ \A i \in 1 .. 2 : IsTween(tasks, tasks[s].kids[i])

\* the advances a tween of duration D consumes on its own when every tick
\* is one frame interval long: one at each of the elapsed times 0 .. D
Advances(k) == k.dur + 1

EmptyParallel(p) == IsKind(p, "parallel") /\ tasks[p].kids = << >>

\* the events of the call between next(p) and the end of that next()
Within(log, p) ==
    LET a == CHOOSE i \in DOMAIN log : log[i].op = "next" /\ log[i].node = p
        b == CHOOSE i \in DOMAIN log :
                 log[i].op \in {"stop", "yield"} /\ log[i].node = p
    IN  SubSeq(log, a + 1, b - 1)

\* C20: the first next() on a Parallel of no generators raises
\* StopIteration, and between its entry and its end nothing happens: no
\* next() on any generator, no assignment; when the driver runs it on its
\* own the call changes no window and no other generator.
C20_EmptyParallel ==
    [][\A p \in DOMAIN tasks :
          (EmptyParallel(p) /\ Advanced(ev', p)) =>
              /\ tasks[p].st = "new" /\ tasks'[p].st = "done"
              /\ tasks'[p].calls = 1
              /\ Within(ev', p) = << >>
              /\ root = p =>
                    /\ win' = win
                    /\ \A n \in DOMAIN tasks : n # p => tasks'[n] = tasks[n]
                    /\ Len(ev') = 2
                    /\ pc' = "idle"]_vars

\* run_animation on a Parallel of no generators has returned after one
\* next(), with a tween built and left untouched
C20_Witness ==
    \E p \in DOMAIN tasks :
        /\ EmptyParallel(p) /\ tasks[p].st = "done" /\ tasks[p].calls = 1
        /\ Advanced(ev, p) /\ Len(ev) = 2
        /\ pc = "idle"
        /\ \E n \in DOMAIN tasks : IsTween(tasks, n) /\ tasks[n].st = "new"

\* p is a Parallel of two tweens of the same duration
ParallelOfTwo(p) ==
    /\ IsKind(p, "parallel") /\ Len(tasks[p].kids) = 2
    /\ \A i \in 1 .. 2 : IsTween(tasks, tasks[p].kids[i])
    /\ tasks[tasks[p].kids[1]].dur = tasks[tasks[p].kids[2]].dur

\* C21 as stated: two tweens of the same duration in a Parallel report
\* done, with their end values written, in the same call of the Parallel.
C21_Original ==
    \A p \in DOMAIN tasks :
        ParallelOfTwo(p) =>
            (tasks[tasks[p].kids[1]].st = "done"
                <=> tasks[tasks[p].kids[2]].st = "done")

\* the time generator n reads in a call in which the generators of late
\* read after the clock moved on
OwnRead(n, late) == IF n \in late THEN now + 1 ELSE now

\* the start time of generator n in such a call: read in this call when
\* the generator is new
OwnStart(n, late) ==
    IF tasks[n].st = "new" THEN OwnRead(n, late) ELSE tasks[n].t0

\* C21 (amended): each of two tweens of the same duration in a Parallel
\* writes its end value and reports done in the first call of the Parallel
\* in which its own elapsed time, the time it reads in that call less the
\* time it read when it started, is >= duration; the two end in the same
\* call when they read the same start time and the same time in the call,
\* and can end in different calls otherwise.
C21_OwnElapsed ==
    [][\A d \in TickLengths, late \in LateSets :
          DriverNextAt(d, late) =>
              \A p \in DOMAIN tasks :
                  (ParallelOfTwo(p) /\ root = p) =>
                      LET a == tasks[p].kids[1]
                          b == tasks[p].kids[2]
                      IN  /\ \A n \in {a, b} :
                                tasks[n].st # "done" =>
                                    /\ tasks'[n].st = "done" <=>
                                          OwnRead(n, late) - OwnStart(n, late)
                                              >= tasks[n].dur
                                    /\ tasks'[n].st = "done" =>
                                          Assigned(ev', n) = EndStored(tasks[n])
                          /\ (/\ OwnStart(a, late) = OwnStart(b, late)
                              /\ OwnRead(a, late) = OwnRead(b, late))
                                 => (tasks'[a].st = "done" <=> tasks'[b].st = "done")]_vars

\* of a move and a resize of the same duration in a Parallel the move has
\* written its end value and the resize, started later, has not
C21_Witness ==
    \E p \in DOMAIN tasks :
        /\ ParallelOfTwo(p)
        /\ tasks[tasks[p].kids[1]].st = "done"
        /\ tasks[tasks[p].kids[2]].st = "running"
        /\ tasks[tasks[p].kids[1]].t0 < tasks[tasks[p].kids[2]].t0
        /\ Assigned(ev, tasks[p].kids[1]) = EndStored(tasks[tasks[p].kids[1]])

\* the calls of easing functions in the step just taken
EaseReturns == {i \in DOMAIN ev : ev[i].op = "return" /\ ev[i].what = "ease"}

\* the exact value a function is to return at the boundary t
Boundary(t) == IF t = 0 THEN Zero ELSE One

\* 2^-52, the distance from 1.0 to the next double
Tolerance == 2 * Sub

Near(x, y) ==
    /\ ~x.any
    /\ x.i = y.i /\ x.c = y.c
    /\ x.e - y.e <= Tolerance /\ y.e - x.e <= Tolerance

SpecialCased ==
    {"ease_in_expo", "ease_out_expo", "ease_in_out_expo",
     "ease_in_elastic", "ease_out_elastic", "ease_in_out_elastic"}

\* C22 as stated: every function of the registry returns 0 at t = 0 and 1
\* at t = 1
C22_Original ==
    \A i \in EaseReturns : ev[i].val.value = Boundary(ev[i].val.t)

\* C22: every function of the registry returns 0 at t = 0 and 1 at t = 1
\* to within 2^-52, and the exponential and elastic functions return
\* exactly 0 and 1
C22_Boundaries ==
    \A i \in EaseReturns :
        /\ Near(ev[i].val.value, Boundary(ev[i].val.t))
        /\ ev[i].val.fn \in SpecialCased
               => ev[i].val.value = Boundary(ev[i].val.t)

\* ease_in_sine(1) has returned the double below 1
C22_Witness ==
    \E i \in EaseReturns :
        /\ ev[i].val.fn = "ease_in_sine" /\ ev[i].val.t = 1
        /\ ev[i].val.value = Fp(1024, 0, 0 - Sub)

\* the colour writes of tweens in a step: <<index in the log, tween>>
ColorWrites(log, ts) ==
    {i \in DOMAIN log : /\ log[i].op = "set" /\ log[i].what = "color"
                        /\ log[i].node \in DOMAIN ts
                        /\ ts[log[i].node].kind = "color"}

Black == <<0, 0, 0, 255>>

White == <<255, 255, 255, 255>>

\* C23: a pending colour write stores, in each of the four channels, the
\* integer part of start + (end - start) * t, t the eased progress; from
\* black to white at t = 1/2 it stores (127, 127, 127, 255)
C23_Truncates ==
    [][\A i \in ColorWrites(ev', tasks') :
          LET k == tasks'[ev'[i].node]
              t == Ease(k.ease, now - k.t0, k.dur)
              v == ev'[i].val
          IN  now - k.t0 < k.dur =>
                /\ \A c \in 1..4 :
                      LET x == k.start[1][c] * t[2]
                                 + (k.dst[1][c] - k.start[1][c]) * t[1]
                      IN  v[c] * t[2] <= x /\ x < (v[c] + 1) * t[2]
                /\ (k.start[1] = Black /\ k.dst[1] = White /\ 2 * t[1] = t[2])
                      => v = <<127, 127, 127, 255>>]_vars

\* half way from black to white the window is (127, 127, 127, 255)
C23_Witness ==
    \E i \in ColorWrites(ev, tasks) :
        LET k == tasks[ev[i].node]
        IN  /\ k.start[1] = Black /\ k.dst[1] = White
            /\ k.ease = "linear" /\ k.dur = 2 /\ now - 1 - k.t0 = 1
            /\ ev[i].val = <<127, 127, 127, 255>>
            /\ win[k.win].color = <<127, 127, 127, 255>>

\* the tweens whose generator was advanced in a step
AdvancedTweens(log, ts) ==
    {n \in DOMAIN ts : ts[n].kind \in TweenKinds /\ Advanced(log, n)}

\* v is start + (end - start) * t, for a colour channel its integer part
Interpolated(kind, v, a, b, t) ==
    IF kind = "color"
    THEN \A c \in 1..4 :
            LET x == a[c] * t[2] + (b[c] - a[c]) * t[1]
            IN  v[c] * t[2] <= x /\ x < (v[c] + 1) * t[2]
    ELSE v * t[2] = a * t[2] + (b - a) * t[1]

\* C24: a tween advanced with elapsed < duration writes, to every channel
\* of its property, start + (end - start) * t with the one
\* t = easing(elapsed / duration), and yields; a linear move from (0, 0) to
\* (100, 0) half way through its duration writes (50, 0)
C24_PendingWrite ==
    [][\A n \in AdvancedTweens(ev', tasks') :
          LET k == tasks'[n]
              t == Ease(k.ease, now - k.t0, k.dur)
              vals == Assigned(ev', n)
          IN  now - k.t0 < k.dur =>
                /\ Len(vals) = Len(k.dst)
                /\ \A i \in DOMAIN k.dst :
                       Interpolated(k.kind, vals[i], k.start[i], k.dst[i], t)
                /\ k.st = "running"
                /\ n = root => pc' = "update"
                /\ (/\ k.kind = "move" /\ k.ease = "linear"
                    /\ k.start = <<0, 0>> /\ k.dst = <<200, 0>>
                    /\ 2 * (now - k.t0) = k.dur)
                      => /\ Px(win'[k.win].x) = 50
                         /\ Px(win'[k.win].y) = 0]_vars

\* a linear move from (0, 0) to (100, 0) is half way and the window at
\* (50, 0); an eased move has written both channels at a quarter
C24_Witness ==
    \E n \in AdvancedTweens(ev, tasks) :
        LET k == tasks[n]
        IN  /\ k.kind = "move" /\ k.start = <<0, 0>> /\ k.dst = <<200, 0>>
            /\ k.dur = 2 /\ now - 1 - k.t0 = 1 /\ k.st = "running"
            /\ \/ k.ease = "linear" /\ Assigned(ev, n) = <<100, 0>>
               \/ k.ease = "ease_in_quad" /\ Assigned(ev, n) = <<50, 0>>

\* the generators an exception left in a step (0: the caller of the run)
Raisers(log) == {log[i].node : i \in {j \in DOMAIN log : log[j].op = "raise"}}

\* where the exception arose
FirstRaise(log) ==
    CHOOSE i \in DOMAIN log :
        log[i].op = "raise" /\ \A j \in 1 .. i - 1 : log[j].op # "raise"

RECURSIVE Under(_)
\* the generators under generator n, at any depth
Under(n) ==
    Range(tasks[n].kids) \cup UNION {Under(tasks[n].kids[i]) : i \in DOMAIN tasks[n].kids}

\* C25: an exception raised while a generator under the running composite
\* is advanced leaves every composite above it, the loop of
\* _run_animation and reaches the caller; after it nothing is advanced or
\* assigned in that call, and no generator under a composite that has
\* ended is advanced in a later call
C25_ErrorAborts ==
    [][/\ (pc = "next" /\ Raisers(ev') # {}) =>
             /\ root \in Raisers(ev') /\ 0 \in Raisers(ev')
             /\ pc' = "idle" /\ root' = 0
             /\ \A j \in DOMAIN ev' : j > FirstRaise(ev') => ev'[j].op = "raise"
             /\ \A n \in Raisers(ev') \ {0} : tasks'[n].st = "done"
       /\ \A c \in DOMAIN tasks :
             (IsComposite(c) /\ tasks[c].st = "done")
                => \A n \in Under(c) : ~Advanced(ev', n)]_vars

\* an exception of a tween has ended its composite and the run while
\* another generator of the composite was not done
C25_Witness ==
    \E c \in DOMAIN tasks :
        /\ IsComposite(c) /\ c \in Raisers(ev) /\ 0 \in Raisers(ev)
        /\ ev[FirstRaise(ev)].node \in Under(c)
        /\ \E n \in Range(tasks[c].kids) : tasks[n].st # "done"
        /\ pc = "idle"

\* the windows created and not closed
Open == {w \in DOMAIN win : ~win[w].closed}

\* the registry holds exactly the windows of `open`, each once
Registers(d, open) ==
    /\ Range(d.windows) = open
    /\ Cardinality(open) = Len(d.windows)

\* C26: whatever windows were created and closed, Desktop._windows holds
\* exactly the windows created and not closed; a close takes its window
\* out of it, and a close of a closed window changes nothing
C26_Registry ==
    [][/\ Registers(desktop', {w \in DOMAIN win' : ~win'[w].closed})
       /\ \A w \in DOMAIN win :
             (~win[w].closed /\ win'[w].closed)
                => w \in Range(desktop.windows) /\ w \notin Range(desktop'.windows)
       /\ \A i \in DOMAIN ev' :
             (ev'[i].op = "return" /\ ev'[i].what = "close")
                => /\ win[ev'[i].win].closed
                   /\ UNCHANGED <<desktop, win>>]_vars

\* of two windows created the first was closed, and closed again: the
\* registry holds the second alone
C26_Witness ==
    /\ Len(win) = 2 /\ win[1].closed /\ ~win[2].closed
    /\ desktop.windows = <<2>>
    /\ \E i \in DOMAIN ev : ev[i].op = "return" /\ ev[i].what = "close"
                              /\ ev[i].win = 1

\* what a step logged: a return of `what`, the value update() returned, an
\* exception reaching the caller
Returned(log, what) ==
    \E i \in DOMAIN log : log[i].op = "return" /\ log[i].what = what

UpdateGave(log, ret) ==
    \E i \in DOMAIN log :
        log[i].op = "return" /\ log[i].what = "update" /\ log[i].val = ret

Thrown(log) == \E i \in DOMAIN log : log[i].op = "raise" /\ log[i].node = 0

\* C27: a tick of Desktop.run() is one update() (pump, then the flushes)
\* and advances nothing; the loop goes on while update() returns True and
\* _running is set; a tick that finds the stop flag set, sees a quit event
\* or has the flag set under it ends run() in that tick, a stop during the
\* sleep ends it at the loop test; once run() is left, by return or by
\* exception, _running is False
C27_RunLoop ==
    [][/\ (pc = "tick" /\ pc' # "tick") =>
             /\ \A i \in DOMAIN ev' : ev'[i].op \in {"pump", "apply", "sdl", "return", "raise"}
             /\ UNCHANGED tasks
             /\ desktop.stop_requested =>
                    /\ Returned(ev', "run") /\ ~Thrown(ev')
                    /\ \A i \in DOMAIN ev' : ev'[i].op = "return"
                    /\ UNCHANGED win
             /\ ~desktop.stop_requested => ev'[1].op = "pump"
             /\ (desktop'.stop_requested /\ ~Thrown(ev')) => UpdateGave(ev', FALSE)
             /\ UpdateGave(ev', FALSE) => Returned(ev', "run")
             /\ UpdateGave(ev', TRUE) => pc' = "pause" /\ desktop'.running
             /\ pc' = "pause" \/ Returned(ev', "run") \/ Thrown(ev')
       /\ (pc = "run" /\ pc' # "run") =>
             IF desktop.running THEN pc' = "tick" /\ ~Returned(ev', "run")
             ELSE Returned(ev', "run") /\ desktop.stop_requested
       /\ (Returned(ev', "run") \/ Thrown(ev')) =>
             /\ pc \in {"run", "tick"} /\ pc' = "idle"
             /\ ~desktop'.running]_vars

\* run() has been left by an exception of a tick, with _running False
C27_Witness ==
    /\ Thrown(ev) /\ pc = "idle"
    /\ ~desktop.running /\ ~desktop.stop_requested
    /\ now > 0

\* the flushes of _apply_changes in their order
FlushOrder ==
    <<"SDL_SetWindowPosition", "SDL_SetWindowSize", "SDL_SetWindowOpacity",
      "_update_frame_texture", "_update_text_texture", "_render">>

Rank(f) == CHOOSE i \in DOMAIN FlushOrder : FlushOrder[i] = f

\* the flushes a step made, in order
Flushes(log) ==
    LET calls == SelectSeq(log, LAMBDA e : e.op = "sdl")
    IN  [i \in DOMAIN calls |-> calls[i].what]

\* C28: one _apply_changes on an open window makes its flushes in the
\* order position, size, opacity, frame of the time-driven content, text,
\* render, each at most once; a flush is made exactly when its flag is set
\* (the render also after a size, frame or text flush); a flag is cleared
\* by its own flush alone and is otherwise left as it was; no value of the
\* window changes
C28_ApplyOrder ==
    [][(ev' # << >> /\ ev'[1].op = "apply" /\ ~win[ev'[1].win].closed) =>
          LET r == win[ev'[1].win]
              q == win'[ev'[1].win]
              fx == Flushes(ev')
              Did(f) == \E i \in DOMAIN fx : fx[i] = f
          IN  /\ \A i \in DOMAIN fx : fx[i] \in Range(FlushOrder)
              /\ \A i, j \in DOMAIN fx : i < j => Rank(fx[i]) < Rank(fx[j])
              /\ Did("SDL_SetWindowPosition") <=> r.position_dirty
              /\ Did("SDL_SetWindowSize") <=> r.size_dirty
              /\ Did("SDL_SetWindowOpacity") <=> r.opacity_dirty
              /\ Did("_update_text_texture")
                    <=> (r.text_renderer /\ (r.text_dirty \/ r.size_dirty))
              /\ Did("_render")
                    <=> \/ r.dirty \/ r.size_dirty
                        \/ Did("_update_frame_texture")
                        \/ Did("_update_text_texture")
              /\ q.position_dirty = (r.position_dirty /\ ~Did("SDL_SetWindowPosition"))
              /\ q.size_dirty = (r.size_dirty /\ ~Did("SDL_SetWindowSize"))
              /\ q.opacity_dirty = (r.opacity_dirty /\ ~Did("SDL_SetWindowOpacity"))
              /\ q.text_dirty = (r.text_dirty /\ ~Did("_update_text_texture"))
              /\ q.dirty = FALSE
              /\ \A prop \in Props : GetProp(q, prop) = GetProp(r, prop)]_vars

\* one apply has flushed size, opacity, a new frame and the text, and
\* rendered once
C28_Witness ==
    /\ ev # << >> /\ ev[1].op = "apply"
    /\ Flushes(ev) = SubSeq(FlushOrder, 2, 6)
    /\ ~win[ev[1].win].dirty

\* C29: every advance of a tween, pending or final, assigns each channel
\* of its property through the setter of the window: after it the
\* property holds the value as the setter stores it and the dirty flag of
\* the property is set (position for move, size for resize, opacity for
\* fade, the render flag for color)
C29_WritesSetFlag ==
    [][\A n \in AdvancedTweens(ev', tasks') :
          LET k == tasks'[n]
              props == TweenProps(k.kind)
              vals == Assigned(ev', n)
          IN  tasks[n].st # "done" =>
                /\ Len(vals) = Len(props)
                /\ \A i \in DOMAIN props : GetProp(win'[k.win], props[i]) = vals[i]
                /\ \A i \in DOMAIN props : win'[k.win][FlagOf(props[i])]
                /\ k.st = "done" => vals = EndStored(k)]_vars

\* a fade has made its final write after the flush of the tick: the
\* opacity is the clamped destination and the flag is set again
C29_Witness ==
    \E n \in AdvancedTweens(ev, tasks) :
        /\ tasks[n].kind = "fade" /\ tasks[n].st = "done"
        /\ tasks[n].dst = <<140>>
        /\ win[tasks[n].win].opacity = 100
        /\ win[tasks[n].win].opacity_dirty
        /\ win[tasks[n].win].shown_opacity # 100

\* the tweens whose generator ran for the first time in a step
Started(ts, ts1) ==
    {n \in DOMAIN ts : /\ ts[n].kind \in TweenKinds
                       /\ ts[n].st = "new" /\ ts1[n].st # "new"}

\* the values of the window when the generators were built (no window is
\* written before the last generator is built)
AtBuild(k) ==
    [i \in DOMAIN TweenProps(k.kind) |->
        GetProp(NewWindow(FALSE), TweenProps(k.kind)[i])]

\* the value of a property when generator n was first advanced: the last
\* assignment of the call before that, else the value before the call
AtFirstNext(log, n, w, prop) ==
    LET first == CHOOSE i \in DOMAIN log : log[i].op = "next" /\ log[i].node = n
        before == {j \in 1 .. first - 1 :
                     log[j].op = "set" /\ log[j].win = w /\ log[j].what = prop}
    IN  IF before = {} THEN GetProp(win[w], prop)
        ELSE log[CHOOSE j \in before : \A i \in before : i <= j].val

\* C30 as stated: a tween interpolates from the values its window had
\* when the generator was built, whatever was written since
C30_Original ==
    [][\A n \in Started(tasks, tasks') : tasks'[n].start = AtBuild(tasks[n])]_vars

\* C30 amended: a tween reads its start values once, when it is first
\* advanced: they are the values its window holds at that moment, a write
\* made since the generator was built included, and they are never read
\* again
C30_StartAtFirstAdvance ==
    [][/\ \A n \in Started(tasks, tasks') :
             tasks'[n].start =
                [i \in DOMAIN TweenProps(tasks[n].kind) |->
                    AtFirstNext(ev', n, tasks[n].win, TweenProps(tasks[n].kind)[i])]
       /\ \A n \in DOMAIN tasks :
             (tasks[n].kind \in TweenKinds /\ tasks[n].st # "new"
                /\ n \in DOMAIN tasks')
                => tasks'[n].start = tasks[n].start]_vars

\* a move built at (0, 0) runs from the position written after it was
\* built, and has kept that start while it moved the window on
C30_Witness ==
    \E n \in DOMAIN tasks :
        /\ tasks[n].kind = "move" /\ tasks[n].st = "running"
        /\ tasks[n].start = <<9, 0>>
        /\ tasks[n].calls >= 2
        /\ GetProp(win[tasks[n].win], "x") = 9
        /\ GetProp(win[tasks[n].win], "y") # 0

\* the windows that were registered and open from the pump of thread n's
\* update() to now
LiveThroughout(n) ==
    {w \in 1 .. tasks[n].flush.base : ~win[w].closed /\ w \in Range(desktop.windows)}

\* how many times the loop body was entered with window w
Visits(seen, w) == Cardinality({i \in DOMAIN seen : seen[i] = w})

\* C31: when the flush loop of a thread's update() ends, every window that
\* stayed live during the loop was visited exactly once, and no window was
\* visited twice, whatever another thread created or closed meanwhile.
C31_Original ==
    [][\A n \in Threads :
          tasks[n].tpc = "flush" /\ tasks'[n].tpc # "flush"
          => /\ \A w \in LiveThroughout(n) : Visits(tasks[n].flush.seen, w) = 1
             /\ \A w \in DOMAIN win : Visits(tasks[n].flush.seen, w) <= 1]_vars

\* what the host shows for the property of dirty flag j of FlushFlags is
\* the value the window holds
InSync(r, j) ==
    CASE j = 1 -> r.shown_pos = <<Px(r.x), Px(r.y)>>
      [] j = 2 -> r.shown_size = <<Px(r.w), Px(r.h)>>
      [] j = 3 -> r.shown_opacity = r.opacity

\* C32: under thread-based composition a step that clears a dirty flag
\* leaves the host showing the value the window then holds: no flag is
\* cleared by an apply that synchronized an older value.
C32_Original ==
    [][\A w \in DOMAIN win : \A j \in DOMAIN FlushFlags :
          win[w][FlushFlags[j]] /\ ~win'[w][FlushFlags[j]] => InSync(win'[w], j)]_vars

\* the places of flush f in the flushes fx of one apply
Places(fx, f) == {i \in DOMAIN fx : fx[i] = f}

\* C33: an apply of an open window whose size flag is set passes the new
\* size to the host and renders exactly once, after the size flush, in that
\* same call; it re-flows the text (before that render) exactly when the
\* window has text content, and leaves the text flag of a window without
\* text as it was.
C33_SizeReflow ==
    [][(/\ ev' # << >> /\ ev'[1].op = "apply"
        /\ ~win[ev'[1].win].closed /\ win[ev'[1].win].size_dirty) =>
          LET r == win[ev'[1].win]
              q == win'[ev'[1].win]
              fx == Flushes(ev')
          IN  /\ Cardinality(Places(fx, "SDL_SetWindowSize")) = 1
              /\ Cardinality(Places(fx, "_render")) = 1
              /\ \A i \in Places(fx, "SDL_SetWindowSize"), j \in Places(fx, "_render") : i < j
              /\ Cardinality(Places(fx, "_update_text_texture"))
                    = IF r.text_renderer THEN 1 ELSE 0
              /\ \A i \in Places(fx, "_update_text_texture") :
                    /\ \A j \in Places(fx, "SDL_SetWindowSize") : j < i
                    /\ \A j \in Places(fx, "_render") : i < j
              /\ ~r.text_renderer => q.text_dirty = r.text_dirty
              /\ q.shown_size = <<Px(r.w), Px(r.h)>>
              /\ ~q.size_dirty /\ ~q.dirty /\ ~(q.text_dirty /\ q.text_renderer)]_vars

\* a window with text whose only pending change was its size has been
\* applied: size, text, render
C33_Witness ==
    /\ ev # << >> /\ ev[1].op = "apply"
    /\ win[ev[1].win].text_renderer
    /\ Flushes(ev) = <<"SDL_SetWindowSize", "_update_text_texture", "_render">>
    /\ win[ev[1].win].shown_size = <<Px(win[ev[1].win].w), Px(win[ev[1].win].h)>>
    /\ win[ev[1].win].shown_size # <<Px(WinArgs.w), Px(WinArgs.h)>>

\* the dirty flag the writes of a tween of this kind set
TweenFlag(kind) == FlagOf(TweenProps(kind)[1])

\* this step is the return of a blocking call whose tween n reported done
ReturnsDone(n) ==
    /\ pc = "next" /\ pc' = "idle" /\ root = n
    /\ BecomesDone(n)

Discards == desktop.initialized /\ ~desktop'.initialized

\* what a set stop flag entails for a step: the flag stays set; but for the
\* advance of a tick whose update() had passed its check before the flag
\* was set (pc = "next"), no update pumps or flushes (it returns False at
\* its entry check), no generator is advanced and nothing is written; a
\* blocking call's loop and run() end at their next check
Stopped ==
    /\ desktop'.stop_requested
    /\ pc # "next" =>
          /\ \A i \in DOMAIN ev' :
                ev'[i].op \notin {"pump", "apply", "sdl", "next", "set"}
          /\ \A w \in DOMAIN win : win'[w] = win[w]
    /\ pc = "update" => (pc' \in {"update", "idle"} /\ tasks' = tasks)
    /\ pc = "tick" => pc' \in {"tick", "idle"}

\* C35 as stated: once the stop flag is set it stays set, with all it
\* entails, through every step but a quit that discards the Desktop.
C35_Original ==
    [][(desktop.stop_requested /\ ~Discards) => Stopped]_vars

\* C35: once the stop flag is set on an initialized Desktop it stays set,
\* with all it entails, through every step but a quit that discards the
\* Desktop; the first init of a Desktop resets the flag (after a step that
\* initializes, the flag is set only if an interrupt came in during an
\* update() that got to its pump).
C35_StickyOnceInitialized ==
    [][/\ (desktop.initialized /\ desktop.stop_requested /\ ~Discards) => Stopped
       /\ (~desktop.initialized /\ desktop'.initialized /\ desktop'.stop_requested)
             => \E i \in DOMAIN ev' : ev'[i].op = "pump"]_vars

\* with the stop flag set on an initialized Desktop, a blocking move has
\* returned at its first check: its generator was never advanced and the
\* window is where it was
C35_Witness ==
    /\ pc = "idle" /\ ev = << >>
    /\ desktop.initialized /\ desktop.stop_requested
    /\ \E n \in DOMAIN tasks :
          /\ tasks[n].kind = "move" /\ tasks[n].local
          /\ tasks[n].st = "new" /\ tasks[n].calls = 0
          /\ ~win[tasks[n].win].closed
          /\ <<win[tasks[n].win].x, win[tasks[n].win].y>> # tasks[n].dst

\* C36: with the clock advancing from tick to tick and no child raising,
\* the loop of run-to-completion, once entered, is left again; when it is
\* left because the generator reported done, every tween and wait under
\* the generator is done; and once a stop is requested the loop is left at
\* its next check, with no further advance after that check.
C36_Terminates ==
    /\ (pc # "idle") ~> (pc = "idle")
    /\ [][(pc = "next" /\ pc' = "idle") =>
             \A n \in Leaves(root) : tasks'[n].st = "done"]_vars
    /\ [][(desktop.stop_requested /\ pc = "update") =>
             (pc' \in {"update", "idle"} /\ tasks' = tasks)]_vars
    /\ []HasRoom

\* a Sequence of a Parallel of a tween and a tween has been run to done
C36_Witness ==
    /\ pc = "idle" /\ ~desktop.stop_requested
    /\ \E c \in DOMAIN tasks :
          /\ tasks[c].kind = "sequence" /\ Nested(c) /\ Len(tasks[c].kids) = 2
          /\ Cardinality(Leaves(c)) = 2
          /\ tasks[c].st = "done" /\ Advanced(ev, c)
          /\ \A n \in Leaves(c) : tasks[n].st = "done"

\* the step ends in the ValueError of get_easing
FailsUnknownEasing ==
    \E i \in DOMAIN ev' : ev'[i].op = "raise" /\ ev'[i].what = "ValueError"

\* C38 as stated: a blocking animate-to call (move, resize, fade, fade_in,
\* fade_out, color_to, move_all) that fails with the unknown-easing error
\* leaves the target as it was: the same logical values and dirty flags.
C38_Original == [][FailsUnknownEasing => win' = win]_vars

\* the flags of window record r that are set
FlagsSet(r) ==
    {f \in {"position_dirty", "size_dirty", "opacity_dirty", "text_dirty",
            "dirty"} : r[f]}

\* C39: when _apply_changes returns on an open window, none of its flags
\* (position, size, opacity, text, render) is set, whichever of them were
\* set when it was called.
C39_NoFlagLeft ==
    [][(ev' # << >> /\ ev'[1].op = "apply" /\ ~win[ev'[1].win].closed) =>
          FlagsSet(win'[ev'[1].win]) = {}]_vars

\* a window with text that had all five flags set has been flushed
C39_Witness ==
    /\ ev # << >> /\ ev[1].op = "apply"
    /\ ~win[ev[1].win].closed /\ win[ev[1].win].text_renderer
    /\ Flushes(ev) = <<"SDL_SetWindowPosition", "SDL_SetWindowSize",
                       "SDL_SetWindowOpacity", "_update_text_texture",
                       "_render">>
    /\ win[ev[1].win].shown_color \in ColorDst
    /\ FlagsSet(win[ev[1].win]) = {}

\* tween generator n holds the end value in its window
AtEnd(ts, ws, n) ==
    \A i \in DOMAIN ts[n].dst :
       GetProp(ws[ts[n].win], TweenProps(ts[n].kind)[i]) = EndStored(ts[n])[i]

\* C40: a tween calls its easing function exactly in the advances that end
\* in a yield, and in each of them the duration is positive and the
\* argument elapsed / duration is in [0, 1); a tween built by a
\* non-blocking builder with a duration <= 0 writes the end value and
\* reports done at its first advance, with no division by the duration
\* (no exception leaves the advance).
C40_EaseDomain ==
    [][\A n \in DOMAIN tasks :
          (tasks[n].kind \in TweenKinds /\ tasks[n].st # "done"
              /\ Advanced(ev', n)) =>
             LET k == tasks'[n]
                 elapsed == now - k.t0
             IN  /\ \A i \in DOMAIN ev' : ev'[i].op # "raise"
                 /\ k.st = "running" =>
                       k.dur > 0 /\ 0 <= elapsed /\ elapsed < k.dur
                 /\ k.dur <= 0 =>
                       k.st = "done" /\ k.calls = 1 /\ AtEnd(tasks', win', n)]_vars

\* a tween built with a duration <= 0 has ended at its first advance with
\* the end value written, and a tween of positive duration has yielded
\* after an advance part of the way
C40_Witness ==
    /\ pc = "update"
    /\ \E a, b \in DOMAIN tasks :
          /\ tasks[a].kind \in TweenKinds /\ tasks[a].dur <= 0
          /\ tasks[a].st = "done" /\ tasks[a].calls = 1
          /\ tasks[b].kind \in TweenKinds /\ tasks[b].kind # tasks[a].kind
          /\ AtEnd(tasks, win, a)
          /\ tasks[b].st = "running" /\ tasks[b].calls = 2
          /\ Advanced(ev, b)

\* the value _lerp hands to the opacity setter at the advance that has just
\* been made on fade generator n (the tick after it lasts one interval)
RawOpacity(n) ==
    Lerp(tasks[n].start[1], tasks[n].dst[1],
         Ease(tasks[n].ease, now - 1 - tasks[n].t0, tasks[n].dur))

====
